---- MODULE Spec2Model ----
(***************************************************************************)
(* State-machine model of the tracking and possession core of the football *)
(* video analytics pipeline:                                               *)
(*   - SimpleTracker        (src/tracking/tracker.py)                      *)
(*   - PossessionTracker    (src/analytics/possession.py)                  *)
(*   - Pipeline: ball selection, ball smoothing and the frame loop         *)
(*                          (src/pipeline/pipeline.py)                     *)
(*                                                                         *)
(* Number representation.  Boxes are tuples <<x1, y1, x2, y2>> of integer  *)
(* pixel coordinates.  A centroid ((x1+x2)/2, (y1+y2)/2) is stored in      *)
(* half-pixel units, <<x1+x2, y1+y2>>, so that it is exact for every       *)
(* integer box.  A Euclidean distance d between two centroids is carried   *)
(* as d4 = (2d)^2, the squared distance in half-pixel units; comparisons   *)
(* of distances and scores are decided exactly on these integers.          *)
(* A percentage 100.0 * n / d is carried as the exact fraction <<100n, d>>.*)
(* A Python dict is an insertion-ordered sequence of <<key, value>> pairs. *)
(***************************************************************************)
EXTENDS Integers, Sequences, FiniteSets, TLC

None == "None"

(***************************************************************************)
(* Ordered dictionaries (Python dict: insertion ordered, unique keys).     *)
(***************************************************************************)
DictKeys(d) == {d[i][1] : i \in 1..Len(d)}

DictHas(d, k) == k \in DictKeys(d)

DictGet(d, k) == d[CHOOSE i \in 1..Len(d) : d[i][1] = k][2]

\* d[k] = v : an existing key keeps its position, a new key is appended.
DictSet(d, k, v) ==
    IF DictHas(d, k)
    THEN [i \in 1..Len(d) |-> IF d[i][1] = k THEN <<k, v>> ELSE d[i]]
    ELSE Append(d, <<k, v>>)

(***************************************************************************)
(* Geometry.                                                               *)
(***************************************************************************)
\* Twice the centroid of a box (tracker.py _centroid, possession.py
\* _ball_center / _player_centers).
Centroid2(box) == <<box[1] + box[3], box[2] + box[4]>>

\* (2 * math.hypot(a - b))^2 for two centroids in half-pixel units.
Dist4(a, b) == (a[1] - b[1]) * (a[1] - b[1]) + (a[2] - b[2]) * (a[2] - b[2])

(***************************************************************************)
(* SimpleTracker                                                           *)
(***************************************************************************)
max_distance == 60

\* float("inf"), the initial best_dist; never a squared distance.
Inf == -1

\* best_id = None: ids are positive, 0 stands for "no id".
NoId == 0

\* Bounds of the tracker runs.
MaxDets == 2
MaxTrackerFrames == 2

\* Person boxes offered to the tracker.  Centroids a = (0, 10.5),
\* b = (36, 58.5), c = (72, 10.5) and d = (200, 10.5): |ab| = |bc| = 60
\* (the gate, inclusive; b is equidistant from a and c), |ac| = 72 (out of
\* reach) and d is out of reach of all.
DetBoxes ==
    { <<-5, 0, 5, 21>>, <<31, 48, 41, 69>>, <<67, 0, 77, 21>>,
      <<195, 0, 205, 21>> }

DetLists == UNION { [1..n -> DetBoxes] : n \in 0..MaxDets }

VARIABLES
    next_id,        \* SimpleTracker.next_id
    tracks,         \* SimpleTracker.tracks : dict id -> centroid
    history,        \* SimpleTracker.history : id -> list of (frame, cx, cy)
    results,        \* the list returned by the last SimpleTracker.update
    detections,     \* the detections passed to the last SimpleTracker.update
    frame_idx       \* the caller's frame counter

trackerVars == <<next_id, tracks, history, results, detections, frame_idx>>

\* Mutant: a second entry of the same frame overwrites the first.
HistAppendOncePerFrame(h, tid, entry) ==
    LET old == IF tid \in DOMAIN h THEN h[tid] ELSE <<>>
        new == IF old # <<>> /\ old[Len(old)][1] = entry[1]
               THEN [old EXCEPT ![Len(old)] = entry]
               ELSE Append(old, entry)
    IN  [t \in DOMAIN h \cup {tid} |-> IF t = tid THEN new ELSE h[t]]

\* history[tid].append(entry) on a defaultdict(list).
HistAppend(h, tid, entry) ==
    [t \in DOMAIN h \cup {tid} |->
        IF t = tid
        THEN Append(IF tid \in DOMAIN h THEN h[tid] ELSE <<>>, entry)
        ELSE h[t]]

\* Mutant: a track at the same distance as the best one replaces it.
DistLtOrEqual(d4, best) == best = Inf \/ d4 <= best

\* dist < best_dist, with best_dist possibly float("inf").
DistLt(d4, best) == best = Inf \/ d4 < best

\* dist <= self.max_distance
WithinGate(d4) == d4 <= 4 * max_distance * max_distance

\* The inner loop over self.tracks.items(): returns <<best_id, best_dist>>.
RECURSIVE ScanTracks(_, _, _, _, _)
ScanTracks(tr, i, c, best_id, best_dist) ==
    IF i > Len(tr) THEN <<best_id, best_dist>>
    ELSE LET tid  == tr[i][1]
             dist == Dist4(c, tr[i][2])
         IN  IF DistLt(dist, best_dist) /\ WithinGate(dist)
             THEN ScanTracks(tr, i + 1, c, tid, dist)
             ELSE ScanTracks(tr, i + 1, c, best_id, best_dist)

\* One iteration of the first loop (no tracks existed at the call).
MintStep(st, box, fidx) ==
    LET c   == Centroid2(box)
        tid == st.next_id
    IN  [ next_id |-> st.next_id + 1,
          tracks  |-> DictSet(st.tracks, tid, c),
          history |-> HistAppend(st.history, tid, <<fidx, c[1], c[2]>>),
          results |-> Append(st.results, <<tid, box>>) ]

\* Mutant: a matched detection is not reported.
MatchStepDropsMatched(st, box, fidx) ==
    LET c     == Centroid2(box)
        found == ScanTracks(st.tracks, 1, c, NoId, Inf)[1]
        tid   == IF found = NoId THEN st.next_id ELSE found
    IN  [ next_id |-> IF found = NoId THEN st.next_id + 1 ELSE st.next_id,
          tracks  |-> DictSet(st.tracks, tid, c),
          history |-> HistAppend(st.history, tid, <<fidx, c[1], c[2]>>),
          results |-> IF found = NoId THEN Append(st.results, <<tid, box>>)
                      ELSE st.results ]

\* Mutant: minting in the matching loop forgets next_id += 1.
MatchStepKeepsNextId(st, box, fidx) ==
    LET c     == Centroid2(box)
        found == ScanTracks(st.tracks, 1, c, NoId, Inf)[1]
        tid   == IF found = NoId THEN st.next_id ELSE found
    IN  [ next_id |-> st.next_id,
          tracks  |-> DictSet(st.tracks, tid, c),
          history |-> HistAppend(st.history, tid, <<fidx, c[1], c[2]>>),
          results |-> Append(st.results, <<tid, box>>) ]

\* One iteration of the matching loop.
MatchStep(st, box, fidx) ==
    LET c     == Centroid2(box)
        found == ScanTracks(st.tracks, 1, c, NoId, Inf)[1]
        tid   == IF found = NoId THEN st.next_id ELSE found
    IN  [ next_id |-> IF found = NoId THEN st.next_id + 1 ELSE st.next_id,
          tracks  |-> DictSet(st.tracks, tid, c),
          history |-> HistAppend(st.history, tid, <<fidx, c[1], c[2]>>),
          results |-> Append(st.results, <<tid, box>>) ]

RECURSIVE MintLoop(_, _, _, _)
MintLoop(st, dets, i, fidx) ==
    IF i > Len(dets) THEN st
    ELSE MintLoop(MintStep(st, dets[i], fidx), dets, i + 1, fidx)

RECURSIVE MatchLoop(_, _, _, _)
MatchLoop(st, dets, i, fidx) ==
    IF i > Len(dets) THEN st
    ELSE MatchLoop(MatchStep(st, dets[i], fidx), dets, i + 1, fidx)

\* Mutant: tracks that no detection of the call matched are removed.
TrackerUpdateDropsUnseen(st, dets, fidx) ==
    LET st0 == [st EXCEPT !.results = <<>>]
        st1 == IF st.tracks = <<>>
               THEN MintLoop(st0, dets, 1, fidx)
               ELSE MatchLoop(st0, dets, 1, fidx)
    IN  [st1 EXCEPT !.tracks =
            SelectSeq(st1.tracks,
                      LAMBDA t : \E i \in 1..Len(st1.results) :
                                     st1.results[i][1] = t[1])]

\* Mutant: the branch for a tracker without tracks is missing.
TrackerUpdateAlwaysMatches(st, dets, fidx) ==
    MatchLoop([st EXCEPT !.results = <<>>], dets, 1, fidx)

\* SimpleTracker.update(detections, frame_idx): the tracker after the call,
\* with the returned list in .results.
TrackerUpdate(st, dets, fidx) ==
    LET st0 == [st EXCEPT !.results = <<>>]
    IN  IF st.tracks = <<>>
        THEN MintLoop(st0, dets, 1, fidx)
        ELSE MatchLoop(st0, dets, 1, fidx)

TrackerInit ==
    /\ next_id = 1
    /\ tracks = <<>>
    /\ history = <<>>
    /\ results = <<>>
    /\ detections = <<>>
    /\ frame_idx = 0

TrackerState ==
    [ next_id |-> next_id, tracks |-> tracks, history |-> history,
      results |-> results ]

\* One frame of the caller's loop: tracker.update(detections, frame_idx),
\* then frame_idx += 1.
TrackFrame ==
    /\ frame_idx < MaxTrackerFrames
    /\ \E dets \in DetLists :
        \E st \in { TrackerUpdate(TrackerState, dets, frame_idx) } :
            /\ next_id' = st.next_id
            /\ tracks' = st.tracks
            /\ history' = st.history
            /\ results' = st.results
            /\ detections' = dets
    /\ frame_idx' = frame_idx + 1

(***************************************************************************)
(* PossessionTracker                                                       *)
(***************************************************************************)
radius == 60

\* Defaults of PossessionTracker.__init__ and of Pipeline.__init__, in
\* tenths (3.0 s, 0.5 s, 25.0 fps).
DefaultWindowSeconds10 == 30
DefaultMemorySeconds10 == 5
DefaultFps10 == 250

\* The motion bonus 0.3 in tenths and the control threshold 0.25 in
\* hundredths.
MotionBonus10 == 3
Threshold100 == 25

NoBox == <<>>

Teams == {"A", "B"}

VARIABLES
    window_frames,          \* PossessionTracker.window_frames
    memory_frames,          \* PossessionTracker.memory_frames
    recent_winners,         \* deque(maxlen = window_frames) of "A" | "B" | None
    global_counts,          \* Counter: team -> directly observed frames
    total_ball_frames,      \* frames with a directly observed winner
    prev_player_centers,    \* dict id -> centroid of the previous update
    last_team,              \* last directly observed winner, or None
    last_team_memory_left,  \* frames of memory remaining
    frame_log,              \* per update: [winner, direct] = the locals
                            \* (winner_team, observed_directly) at its end
    call,                   \* the arguments of the last update:
                            \* [tracks, teams, ball]
    player_velocities,      \* the local dict id -> velocity of the last
                            \* update (half-pixel units)
    init_call               \* the arguments of __init__:
                            \* [fps, window_seconds, memory_seconds], tenths

possVars ==
    <<window_frames, memory_frames, recent_winners, global_counts,
      total_ball_frames, prev_player_centers, last_team,
      last_team_memory_left, frame_log, call, player_velocities, init_call>>

Max(a, b) == IF a >= b THEN a ELSE b

\* int(n / d) for d > 0: truncation toward zero.
TruncDiv(n, d) == IF n >= 0 THEN n \div d ELSE -((-n) \div d)

\* The doubles of possession.py:51-52.  A number of tenths x10 > 0 stands
\* for the double nearest to x10 / 10, which is A / 2^p for a whole A with
\* 2^52 <= A < 2^53.  BinaryExponent is the k with 2^k <= x10 / 10 <
\* 2^(k + 1), so that p = 52 - k.
RECURSIVE BinaryExponent(_, _)
BinaryExponent(x10, k) ==
    IF x10 >= 10
    THEN IF 2^(k + 1) <= x10 \div 10 THEN BinaryExponent(x10, k + 1) ELSE k
    ELSE IF x10 * 2^(-k) < 10 THEN BinaryExponent(x10, k - 1) ELSE k

\* floor(log2(n)) for n >= 1.
RECURSIVE FloorLog2(_, _)
FloorLog2(n, e) == IF 2^(e + 1) <= n THEN FloorLog2(n, e + 1) ELSE e

\* The rounding of x10 / 10 to its double A / 2^p, as the whole number
\* r = x10 * 2^p - 10 * A with -5 < r < 5: the residue of x10 * 2^p
\* modulo 10 that is nearest to 0 (p >= 1, and 2^p modulo 10 runs through
\* 2, 4, 8, 6).  The double is below x10 / 10 when r > 0.
RoundingResidue(x10, p) ==
    LET m == ((x10 % 10) * <<2, 4, 8, 6>>[((p - 1) % 4) + 1]) % 10
    IN  IF m < 5 THEN m ELSE m - 10

\* Whether the double product of seconds and fps (both > 0, in tenths) is
\* below their exact product n, a whole number.  With the doubles
\* (s * 2^p - rs) / (10 * 2^p) and (f * 2^q - rf) / (10 * 2^q) the exact
\* product of the doubles is below n by
\*     (rf * s * 2^p + rs * f * 2^q - rs * rf) / (100 * 2^(p + q)),
\* and it is rounded to a double below n when that exceeds half the gap
\* 2^(e - 52) between n and the double before it (2^(e - 53) when n is a
\* power of two), e = floor(log2(n)); on a tie the result is n, whose last
\* bit is 0.  Both sides are divided by 2^w.
ProductFallsShort(seconds10, fps10) ==
    LET n  == (seconds10 * fps10) \div 100
        p  == 52 - BinaryExponent(seconds10, 0)
        q  == 52 - BinaryExponent(fps10, 0)
        rs == RoundingResidue(seconds10, p)
        rf == RoundingResidue(fps10, q)
        e  == FloorLog2(n, 0)
        t  == p + q + e - 53 - (IF n = 2^e THEN 1 ELSE 0)
        w  == IF p <= q /\ p <= t THEN p ELSE IF q <= t THEN q ELSE t
        l  == rf * seconds10 * 2^(p - w) + rs * fps10 * 2^(q - w)
        r  == 100 * 2^(t - w)
    IN  IF rs * rf >= 0 THEN l > r ELSE l >= r

\* max(1, int(seconds * fps)), seconds and fps given in tenths.  A product
\* that is not a whole number is further from one than the rounding of the
\* doubles; a whole product n can be a double just below n, and int()
\* then gives n - 1.  A negative or zero product gives 1.
FramesFor(seconds10, fps10) ==
    LET exact == seconds10 * fps10
        whole == TruncDiv(exact, 100)
        short == /\ whole >= 1
                 /\ exact % 100 = 0
                 /\ ProductFallsShort(IF seconds10 < 0 THEN -seconds10
                                      ELSE seconds10,
                                      IF fps10 < 0 THEN -fps10 ELSE fps10)
    IN  Max(1, IF short THEN whole - 1 ELSE whole)

\* Counter lookups and increments: a missing key counts 0.
CounterGet(c, k) == IF k \in DOMAIN c THEN c[k] ELSE 0

CounterInc(c, k) ==
    [t \in DOMAIN c \cup {k} |-> IF t = k THEN CounterGet(c, k) + 1 ELSE c[t]]

\* Mutant: the deque holds one entry less than maxlen.
DequeAppendEvictsEarly(q, x, n) ==
    IF Len(q) >= n - 1 /\ q # <<>> THEN Append(Tail(q), x) ELSE Append(q, x)

\* Mutant: a full deque drops the new entry instead of the oldest.
DequeAppendDropsNewest(q, x, n) ==
    IF Len(q) >= n THEN q ELSE Append(q, x)

\* deque.append on a deque with maxlen n: the oldest entry falls out.
DequeAppend(q, x, n) ==
    IF Len(q) >= n THEN Append(Tail(q), x) ELSE Append(q, x)

\* _player_centers: dict id -> centroid, built in list order.
RECURSIVE PlayerCenters(_, _, _)
PlayerCenters(trks, i, centers) ==
    IF i > Len(trks) THEN centers
    ELSE PlayerCenters(trks, i + 1,
                       DictSet(centers, trks[i][1], Centroid2(trks[i][2])))

\* The velocity of a track: displacement since the previous update, or
\* (0, 0) for an id the previous update did not carry (half-pixel units).
Velocity(prev, tid, c) ==
    IF DictHas(prev, tid)
    THEN <<c[1] - DictGet(prev, tid)[1], c[2] - DictGet(prev, tid)[2]>>
    ELSE <<0, 0>>

\* The loop over player_centers.items() that fills player_velocities
\* (lines 114-120).
RECURSIVE PlayerVelocities(_, _, _, _)
PlayerVelocities(centers, i, prev, velocities) ==
    IF i > Len(centers) THEN velocities
    ELSE PlayerVelocities(centers, i + 1, prev,
             DictSet(velocities, centers[i][1],
                     Velocity(prev, centers[i][1], centers[i][2])))

\* Mutant: the new centres are merged into the stored ones.
StoredCentersMerged(prev, centers) ==
    SelectSeq(prev, LAMBDA e : ~DictHas(centers, e[1])) \o centers

\* self.prev_player_centers = player_centers (line 123).
StoredCenters(prev, centers) == centers

\* frame_team_map.get(track_id)
TeamOf(team_map, tid) ==
    IF tid \in DOMAIN team_map THEN team_map[tid] ELSE None

\* A score max(0, (radius - dist) / radius) + motion_score is carried as
\* the pair (d4, bonus): dist = sqrt(d4) / 2 <= radius, motion_score =
\* 0.3 * bonus.  The initial best_score 0.0 is the score of dist = radius
\* without bonus.
ScoreOf(d4, bonus) == [d4 |-> d4, bonus |-> bonus]

ZeroScore == ScoreOf(4 * radius * radius, 0)

\* 0.3 * radius in half-pixel units: the distance the bonus is worth.
BonusReach == (2 * radius * MotionBonus10) \div 10

\* (radius - dist) / radius + 0.3 and (radius - dist') / radius are equal
\* as real numbers when dist = dist' + 0.3 * radius; as doubles they can
\* differ in the last place.  The tables list 2 * dist of the track with
\* the bonus (dist a multiple of half a pixel, radius 60) for which its
\* double score is below, respectively above, the double score of the
\* track without bonus; for all other pairs of scores the order of the
\* doubles is the order of the real numbers.
BonusRoundsBelow ==
    {40, 41, 47, 48, 49, 55, 56, 63, 64, 71, 78, 79, 86, 94, 98, 102, 106,
     110}

BonusRoundsAbove == {38, 39, 46, 53, 54, 68, 83, 97}

\* Mutant: score >= best_score, so that the last of equal scores wins.
ScoreGtOrEqual(s, t) ==
    LET SqrtGt(x, y, c) ==
            LET l == x - y - c * c IN l > 0 /\ l * l > 4 * c * c * y
        SqrtEq(x, y, c) ==
            LET l == x - y - c * c IN l >= 0 /\ l * l = 4 * c * c * y
        Root(x) == CHOOSE n \in 0..(2 * radius) : n * n = x
    IN  IF s.bonus = t.bonus THEN s.d4 <= t.d4
        ELSE IF s.bonus = 1
        THEN IF SqrtEq(s.d4, t.d4, BonusReach)
             THEN Root(s.d4) \notin BonusRoundsBelow
             ELSE ~SqrtGt(s.d4, t.d4, BonusReach)
        ELSE IF SqrtEq(t.d4, s.d4, BonusReach)
             THEN Root(t.d4) \notin BonusRoundsAbove
             ELSE SqrtGt(t.d4, s.d4, BonusReach)

\* score > best_score on the doubles: SqrtGt and SqrtEq decide
\* sqrt(x) > sqrt(y) + c and sqrt(x) = sqrt(y) + c for c > 0, and the
\* tables decide the pairs that are equal as real numbers.
ScoreGt(s, t) ==
    LET SqrtGt(x, y, c) ==
            LET l == x - y - c * c IN l > 0 /\ l * l > 4 * c * c * y
        SqrtEq(x, y, c) ==
            LET l == x - y - c * c IN l >= 0 /\ l * l = 4 * c * c * y
        Root(x) == CHOOSE n \in 0..(2 * radius) : n * n = x
    IN  IF s.bonus = t.bonus THEN s.d4 < t.d4
        ELSE IF s.bonus = 1
        THEN IF SqrtEq(s.d4, t.d4, BonusReach)
             THEN Root(s.d4) \in BonusRoundsAbove
             ELSE ~SqrtGt(s.d4, t.d4, BonusReach)
        ELSE IF SqrtEq(t.d4, s.d4, BonusReach)
             THEN Root(t.d4) \in BonusRoundsBelow
             ELSE SqrtGt(t.d4, s.d4, BonusReach)

\* best_score >= 0.25, i.e. 100 * 2 * dist <= 2 * radius * (75 + 30 * bonus)
ScoreAtLeastThreshold(s) ==
    LET reach == 2 * radius * (100 - Threshold100 + 10 * MotionBonus10 * s.bonus)
    IN  10000 * s.d4 <= reach * reach

\* dist > self.radius
BeyondRadius(d4) == d4 > 4 * radius * radius

\* dot > 0 for velocity v of a track at p and the ball at b.
MovingToward(v, p, b) == v[1] * (b[1] - p[1]) + v[2] * (b[2] - p[2]) > 0

\* The loop over player_centers.items() when the ball is visible:
\* returns <<best_score, best_team>>.
RECURSIVE ScoreLoop(_, _, _, _, _, _, _)
ScoreLoop(centers, i, prev, team_map, ball_c, best_score, best_team) ==
    IF i > Len(centers) THEN <<best_score, best_team>>
    ELSE LET tid   == centers[i][1]
             p     == centers[i][2]
             team  == TeamOf(team_map, tid)
             dist  == Dist4(ball_c, p)
             bonus == IF MovingToward(Velocity(prev, tid, p), p, ball_c)
                      THEN 1 ELSE 0
             score == ScoreOf(dist, bonus)
         IN  IF team \notin Teams \/ BeyondRadius(dist)
             THEN ScoreLoop(centers, i + 1, prev, team_map, ball_c,
                            best_score, best_team)
             ELSE IF ScoreGt(score, best_score)
             THEN ScoreLoop(centers, i + 1, prev, team_map, ball_c,
                            score, team)
             ELSE ScoreLoop(centers, i + 1, prev, team_map, ball_c,
                            best_score, best_team)

\* The direct winner of a frame (possession.py lines 128-169), or None.
DirectWinner(prev, trks, team_map, ball_box) ==
    IF ball_box = NoBox THEN None
    ELSE LET best == ScoreLoop(PlayerCenters(trks, 1, <<>>), 1, prev,
                               team_map, Centroid2(ball_box), ZeroScore, None)
         IN  IF best[2] # None /\ ScoreAtLeastThreshold(best[1])
             THEN best[2] ELSE None

\* The memory can supply the winner of a frame without direct winner.
UsesMemory(st) == st.last_team_memory_left > 0 /\ st.last_team \in Teams

\* winner_team after the memory fallback (lines 171-178).
FrameWinner(st, direct) ==
    IF direct # None THEN direct
    ELSE IF UsesMemory(st) THEN st.last_team ELSE None

\* Mutant: a direct observation grants one frame of memory less.
MemoryLeftAfterShort(st, direct) ==
    IF direct \in Teams THEN st.memory_frames - 1
    ELSE IF UsesMemory(st) THEN st.last_team_memory_left - 1
    ELSE st.last_team_memory_left

\* Mutant: a direct observation adds to the memory instead of resetting it.
MemoryLeftAfterAccumulates(st, direct) ==
    IF direct \in Teams THEN st.last_team_memory_left + st.memory_frames
    ELSE IF UsesMemory(st) THEN st.last_team_memory_left - 1
    ELSE st.last_team_memory_left

\* last_team_memory_left after the update (lines 176 and 182-184).
MemoryLeftAfter(st, direct) ==
    IF direct \in Teams THEN st.memory_frames
    ELSE IF UsesMemory(st) THEN st.last_team_memory_left - 1
    ELSE st.last_team_memory_left

\* Mutant: last_team is set by the first direct winner only.
LastTeamAfterKeepsFirst(st, direct) ==
    IF direct \in Teams /\ st.last_team = None THEN direct ELSE st.last_team

\* last_team after the update (lines 182-183).
LastTeamAfter(st, direct) ==
    IF direct \in Teams THEN direct ELSE st.last_team

\* Mutant: a winner taken from memory is counted too.
GlobalCountsAfterCountsMemory(st, direct) ==
    IF FrameWinner(st, direct) \in Teams
    THEN CounterInc(st.global_counts, FrameWinner(st, direct))
    ELSE st.global_counts

\* global_counts after the update (lines 190-191).
GlobalCountsAfter(st, direct) ==
    IF direct \in Teams THEN CounterInc(st.global_counts, direct)
    ELSE st.global_counts

\* Mutant: a winner taken from memory adds to total_ball_frames.
TotalBallFramesAfterCountsMemory(st, direct) ==
    IF FrameWinner(st, direct) \in Teams THEN st.total_ball_frames + 1
    ELSE st.total_ball_frames

\* total_ball_frames after the update (lines 190-192).
TotalBallFramesAfter(st, direct) ==
    IF direct \in Teams THEN st.total_ball_frames + 1
    ELSE st.total_ball_frames

\* The state after PossessionTracker.update with the direct winner given
\* (lines 108-123 and 171-192).
PossUpdateGiven(st, trks, direct) ==
    LET winner == FrameWinner(st, direct)
    IN  [ window_frames         |-> st.window_frames,
          memory_frames         |-> st.memory_frames,
          prev_player_centers   |-> StoredCenters(st.prev_player_centers,
                                       PlayerCenters(trks, 1, <<>>)),
          player_velocities     |-> PlayerVelocities(
                                       PlayerCenters(trks, 1, <<>>), 1,
                                       st.prev_player_centers, <<>>),
          last_team             |-> LastTeamAfter(st, direct),
          last_team_memory_left |-> MemoryLeftAfter(st, direct),
          recent_winners        |-> DequeAppend(st.recent_winners, winner,
                                                st.window_frames),
          global_counts         |-> GlobalCountsAfter(st, direct),
          total_ball_frames     |-> TotalBallFramesAfter(st, direct),
          frame_log             |-> Append(st.frame_log,
                                       [winner |-> winner,
                                        direct |-> direct # None]) ]

\* PossessionTracker.update(tracks, frame_team_map, ball_box).
PossUpdate(st, trks, team_map, ball_box) ==
    PossUpdateGiven(st, trks,
                    DirectWinner(st.prev_player_centers, trks, team_map,
                                 ball_box))

\* No update has been called yet.
NoCall == [tracks |-> <<>>, teams |-> <<>>, ball |-> NoBox]

\* PossessionTracker.__init__(fps, window_seconds = .., memory_seconds = ..)
PossNew(fps10, window10, memory10) ==
    /\ window_frames = FramesFor(window10, fps10)
    /\ memory_frames = FramesFor(memory10, fps10)
    /\ recent_winners = <<>>
    /\ global_counts = <<>>
    /\ total_ball_frames = 0
    /\ prev_player_centers = <<>>
    /\ last_team = None
    /\ last_team_memory_left = 0
    /\ frame_log = <<>>
    /\ call = NoCall
    /\ player_velocities = <<>>
    /\ init_call = [fps |-> fps10, window_seconds |-> window10,
                    memory_seconds |-> memory10]

\* Pipeline.__init__: the fps handed to PossessionTracker.  The metadata is
\* [is_dict, items]: a dict with its items (fps in tenths), or something
\* that is not a dict.
NotADict == [is_dict |-> FALSE, items |-> <<>>]

MetadataFps(metadata) ==
    IF metadata.is_dict
    THEN IF DictHas(metadata.items, "fps")
         THEN DictGet(metadata.items, "fps")
         ELSE DefaultFps10
    ELSE DefaultFps10

\* PossessionTracker(fps = fps) as Pipeline.__init__ builds it.
PipelinePossNew(metadata) ==
    PossNew(MetadataFps(metadata), DefaultWindowSeconds10,
            DefaultMemorySeconds10)

PossState ==
    [ window_frames |-> window_frames, memory_frames |-> memory_frames,
      recent_winners |-> recent_winners, global_counts |-> global_counts,
      total_ball_frames |-> total_ball_frames,
      prev_player_centers |-> prev_player_centers, last_team |-> last_team,
      last_team_memory_left |-> last_team_memory_left,
      frame_log |-> frame_log ]

\* The variables after an update that leaves the tracker in state st.
PossStepTo(st, trks, team_map, ball_box) ==
    /\ recent_winners' = st.recent_winners
    /\ global_counts' = st.global_counts
    /\ total_ball_frames' = st.total_ball_frames
    /\ prev_player_centers' = st.prev_player_centers
    /\ last_team' = st.last_team
    /\ last_team_memory_left' = st.last_team_memory_left
    /\ frame_log' = st.frame_log
    /\ call' = [tracks |-> trks, teams |-> team_map, ball |-> ball_box]
    /\ player_velocities' = st.player_velocities
    /\ UNCHANGED <<window_frames, memory_frames, init_call>>

\* possession_tracker.update(tracks, frame_team_map, ball) as a step.
PossStep(trks, team_map, ball_box) ==
    \E st \in { PossUpdate(PossState, trks, team_map, ball_box) } :
        PossStepTo(st, trks, team_map, ball_box)

\* Percentages: 100.0 * n / d as the fraction <<100 * n, d>>; 0.0 is <<0, 1>>.
Pct(n, d) == <<100 * n, d>>

ZeroPct == <<0, 1>>

RECURSIVE CountOf(_, _)
CountOf(q, t) ==
    IF q = <<>> THEN 0
    ELSE (IF Head(q) = t THEN 1 ELSE 0) + CountOf(Tail(q), t)

\* Mutant: each team's count is divided by itself instead of the total.
WindowPercentagesOwnTotal(st) ==
    LET a     == CountOf(st.recent_winners, "A")
        b     == CountOf(st.recent_winners, "B")
    IN  [A |-> IF a = 0 THEN ZeroPct ELSE Pct(a, a),
         B |-> IF b = 0 THEN ZeroPct ELSE Pct(b, b)]

\* _window_percentages
WindowPercentages(st) ==
    LET a     == CountOf(st.recent_winners, "A")
        b     == CountOf(st.recent_winners, "B")
        total == a + b
    IN  IF total = 0 THEN [A |-> ZeroPct, B |-> ZeroPct]
        ELSE [A |-> Pct(a, total), B |-> Pct(b, total)]

\* _global_percentages
GlobalPercentages(st) ==
    IF st.total_ball_frames = 0 THEN [A |-> ZeroPct, B |-> ZeroPct]
    ELSE [A |-> Pct(CounterGet(st.global_counts, "A"), st.total_ball_frames),
          B |-> Pct(CounterGet(st.global_counts, "B"), st.total_ball_frames)]

\* (win["A"] + win["B"]) == 0
PctSumIsZero(p) == p.A[1] * p.B[2] + p.B[1] * p.A[2] = 0

\* Mutant: no fallback to the global statistics.
GetPercentagesWindowOnly(st) == WindowPercentages(st)

\* get_percentages
GetPercentages(st) ==
    LET win == WindowPercentages(st)
    IN  IF PctSumIsZero(win) THEN GlobalPercentages(st) ELSE win

(***************************************************************************)
(* Ball smoothing (Pipeline._update_ball_smoothing).  A raw observation is *)
(* None (NoBox) or the box _select_ball returns, whose coordinates are     *)
(* whole numbers; the smoothed box holds four doubles.                     *)
(***************************************************************************)
max_ball_history == 5

\* "if trailing_misses >= 3": the ball is cleared.
MissLimit == 3

VARIABLES
    ball_history,           \* Pipeline.ball_history: recent raw observations
    smoothed_ball,          \* Pipeline.smoothed_ball
    raw_ball_box,           \* process_video's raw_ball_box of the last frame
    ball_candidates,        \* process_video's ball_candidates of the last frame
    raw_log                 \* every raw observation fed so far, in order

ballVars ==
    <<ball_history, smoothed_ball, raw_ball_box, ball_candidates, raw_log>>

Abs(n) == IF n >= 0 THEN n ELSE -n

RECURSIVE GCD(_, _)
GCD(a, b) == IF b = 0 THEN a ELSE GCD(b, a % b)

\* The doubles of _update_ball_smoothing (pipeline.py:145-155).  A double
\* is written <<P, R, D>> and is (P - R / 2^56) / D exactly, with D > 0 and
\* P, R, D without a common factor: P / D is the number the arithmetic
\* would give on real numbers and R / (2^56 * D) is what rounding took off.
\* A whole number n is <<n, 0, 1>>.
Double(P, R, D) ==
    LET g == GCD(GCD(Abs(P), Abs(R)), D)
    IN  <<P \div g, R \div g, D \div g>>

\* The k with 2^k <= num / den < 2^(k + 1), for num > 0 and den > 0.
RECURSIVE RatioExponent(_, _, _)
RatioExponent(num, den, k) ==
    IF num >= den
    THEN IF den * 2^(k + 1) <= num THEN RatioExponent(num, den, k + 1) ELSE k
    ELSE IF num * 2^(-k) < den THEN RatioExponent(num, den, k - 1) ELSE k

\* b^k modulo m.
RECURSIVE PowerMod(_, _, _)
PowerMod(b, k, m) ==
    IF k = 0 THEN 1 % m
    ELSE LET h == PowerMod(b, k \div 2, m)
         IN  (h * h * (IF k % 2 = 1 THEN b ELSE 1)) % m

\* The rounding of a result to a double (round to nearest, ties to the
\* even mantissa).  The exact result is (P - Q / 2^56) / D, with Q / 2^56
\* far below 1 and Q = 0 when P = 0; the double nearest to it is
\* (P - R / 2^56) / D for the R returned.  With e the binary exponent of
\* the result, a double of that size is a multiple of 2^(e - 52), so R is
\* 2^(e + 4) * z for a whole z with P * 2^(52 - e) - z divisible by D, and
\* the mantissa of the double is |P * 2^(52 - e) - z| / D; z is the nearest
\* such number to Q / 2^(e + 4).
RoundToDouble(P, Q, D) ==
    IF P = 0 THEN 0
    ELSE
    LET s    == IF P > 0 THEN 1 ELSE -1
        g    == RatioExponent(s * P, D, 0)
        pow2 == IF g >= 0 THEN s * P = D * 2^g ELSE s * P * 2^(-g) = D
        e    == IF pow2 /\ s * Q > 0 THEN g - 1 ELSE g
        u    == 2^(e + 4)
        c    == ((P % D) * PowerMod(2, 52 - e, D)) % D
        lo   == c + D * ((Q - c * u) \div (D * u))
        hi   == lo + D
        even == (((P % (2 * D)) * PowerMod(2, 52 - e, 2 * D)) - lo)
                   % (2 * D) = 0
    IN  IF Q - lo * u < hi * u - Q THEN lo * u
        ELSE IF hi * u - Q < Q - lo * u THEN hi * u
        ELSE IF even THEN lo * u ELSE hi * u

\* sum(xs) for a list of whole numbers.
RECURSIVE Sum(_)
Sum(xs) == IF xs = <<>> THEN 0 ELSE Head(xs) + Sum(Tail(xs))

\* self.ball_history.append(ball_box), then pop(0) when over the limit.
\* Mutant: the buffer keeps the last two observations only.
HistoryPushKeepsTwo(hist, ball_box) ==
    LET h == Append(hist, ball_box)
    IN  IF Len(h) > 2 THEN Tail(h) ELSE h

\* Mutant: the newest observation is popped instead of the oldest.
HistoryPushPopsNewest(hist, ball_box) ==
    LET h == Append(hist, ball_box)
    IN  IF Len(h) > max_ball_history THEN SubSeq(h, 1, Len(h) - 1) ELSE h

HistoryPush(hist, ball_box) ==
    LET h == Append(hist, ball_box)
    IN  IF Len(h) > max_ball_history THEN Tail(h) ELSE h

\* The loop over reversed(self.ball_history): misses before the first box.
RECURSIVE TrailingMisses(_)
TrailingMisses(hist) ==
    IF hist = <<>> THEN 0
    ELSE IF hist[Len(hist)] = NoBox
         THEN 1 + TrailingMisses(SubSeq(hist, 1, Len(hist) - 1))
         ELSE 0

\* [b for b in self.ball_history if b is not None]
ValidBoxes(hist) == SelectSeq(hist, LAMBDA b : b # NoBox)

\* The box rebuilt from the averaged centre and size of the valid boxes
\* (boxes of whole coordinates, as _select_ball returns them), in doubles.
\* Along one axis, with coordinates lo and hi: the centres (lo + hi) / 2.0,
\* the sizes hi - lo and their sums are exact; sc is twice the sum of the
\* centres and sw the sum of the sizes.  The mean centre sum / n is the
\* double of sc / (2 * n), half the mean size is the double of
\* sw / (2 * n) (halving a double is exact), and their difference and
\* their sum are rounded once more.
AverageBox(valid) ==
    LET n == Len(valid)
        Axis(lo, hi) ==
            LET sc     == Sum([i \in 1..n |-> valid[i][lo] + valid[i][hi]])
                sw     == Sum([i \in 1..n |-> valid[i][hi] - valid[i][lo]])
                avg_c  == RoundToDouble(sc, 0, 2 * n)
                half_w == RoundToDouble(sw, 0, 2 * n)
            IN  << Double(sc - sw,
                          RoundToDouble(sc - sw, avg_c - half_w, 2 * n),
                          2 * n),
                   Double(sc + sw,
                          RoundToDouble(sc + sw, avg_c + half_w, 2 * n),
                          2 * n) >>
    IN  \* (x1_s, y1_s, x2_s, y2_s)
        << Axis(1, 3)[1], Axis(2, 4)[1], Axis(1, 3)[2], Axis(2, 4)[2] >>

\* Mutant: the ball is cleared only at exactly three trailing misses.
IsLostAtThreeOnly(hist) == TrailingMisses(hist) = MissLimit

\* Mutant: the ball is cleared only after more than three trailing misses.
IsLostAfterFour(hist) == TrailingMisses(hist) > MissLimit

IsLost(hist) == TrailingMisses(hist) >= MissLimit

\* Pipeline._update_ball_smoothing(ball_box) on [ball_history, smoothed_ball].
UpdateBallSmoothing(st, ball_box) ==
    LET hist  == HistoryPush(st.ball_history, ball_box)
        valid == ValidBoxes(hist)
    IN  [ ball_history  |-> hist,
          smoothed_ball |->
              IF IsLost(hist) THEN NoBox
              ELSE IF valid = <<>> THEN st.smoothed_ball
              ELSE AverageBox(valid) ]

\* Pipeline.__init__: the smoothing state.
BallInit ==
    /\ ball_history = <<>>
    /\ smoothed_ball = NoBox
    /\ raw_ball_box = NoBox
    /\ ball_candidates = <<>>
    /\ raw_log = <<>>

BallState == [ ball_history |-> ball_history, smoothed_ball |-> smoothed_ball ]

\* self._update_ball_smoothing(raw) as a step.
SmoothStep(raw) ==
    \E st \in { UpdateBallSmoothing(BallState, raw) } :
        /\ ball_history' = st.ball_history
        /\ smoothed_ball' = st.smoothed_ball
        /\ raw_ball_box' = raw
        /\ raw_log' = Append(raw_log, raw)

(***************************************************************************)
(* Ball selection (Pipeline._select_ball).  A candidate is                 *)
(* <<x1, y1, x2, y2, score>> with the coordinates in tenths of a pixel     *)
(* (the detector gives floats) and the score in hundredths; the box        *)
(* returned has whole-pixel coordinates.                                   *)
(***************************************************************************)
\* frame.shape[:2]
FrameH == 100
FrameW == 100

\* best_score = -1.0, in hundredths.
InitialBestScore100 == -100

\* area < 4, area > 0.02 * w_frame * h_frame, aspect < 0.5, aspect > 1.8,
\* y2 < 0.20 * h_frame: the constants, scaled to whole numbers.
MinBallArea == 4
MaxAreaShare100 == 2
MinAspect10 == 5
MaxAspect10 == 18
MinBottomShare100 == 20

\* int(c) of a coordinate given in tenths: truncation toward zero.
IntOfTenths(c10) == TruncDiv(c10, 10)

\* x1, y1, x2, y2 = map(int, (x1, y1, x2, y2))
IntBox(cand) ==
    << IntOfTenths(cand[1]), IntOfTenths(cand[2]),
       IntOfTenths(cand[3]), IntOfTenths(cand[4]) >>

\* The four "continue" tests of the loop, on the whole-pixel box.
BadSize(b) == (b[3] - b[1]) <= 0 \/ (b[4] - b[2]) <= 0

BadArea(b) ==
    LET area == (b[3] - b[1]) * (b[4] - b[2])
    IN  \/ area < MinBallArea
        \/ 100 * area > MaxAreaShare100 * FrameW * FrameH

BadAspect(b) ==
    LET w == b[3] - b[1]
        h == b[4] - b[2]
    IN  \/ 10 * w < MinAspect10 * h
        \/ 10 * w > MaxAspect10 * h

TooHigh(b) == 100 * b[4] < MinBottomShare100 * FrameH

\* Mutant: a later candidate of equal score replaces the best one.
BetterScoreOrEqual(score, best_score) == score >= best_score

\* "if score > best_score"
BetterScore(score, best_score) == score > best_score

\* The loop of _select_ball from candidate i on: the final best.
RECURSIVE SelectLoop(_, _, _, _)
SelectLoop(candidates, i, best, best_score) ==
    IF i > Len(candidates) THEN best
    ELSE LET b     == IntBox(candidates[i])
             score == candidates[i][5]
         IN  IF BadSize(b) THEN SelectLoop(candidates, i + 1, best, best_score)
             ELSE IF BadArea(b)
                  THEN SelectLoop(candidates, i + 1, best, best_score)
             ELSE IF BadAspect(b)
                  THEN SelectLoop(candidates, i + 1, best, best_score)
             ELSE IF TooHigh(b)
                  THEN SelectLoop(candidates, i + 1, best, best_score)
             ELSE IF BetterScore(score, best_score)
                  THEN SelectLoop(candidates, i + 1, b, score)
             ELSE SelectLoop(candidates, i + 1, best, best_score)

\* Pipeline._select_ball(frame, candidates)
SelectBall(candidates) ==
    IF candidates = <<>> THEN NoBox
    ELSE SelectLoop(candidates, 1, NoBox, InitialBestScore100)

\* raw_ball_box = self._select_ball(frame, ball_candidates), then
\* self._update_ball_smoothing(raw_ball_box).
SelectAndSmooth(candidates) ==
    /\ ball_candidates' = candidates
    /\ SmoothStep(SelectBall(candidates))

(***************************************************************************)
(* Double-precision arithmetic of PossessionTracker.update on a smoothed   *)
(* ball.  A natural number beyond the range of the integers used here is   *)
(* the sequence of its digits in base 2^14, least significant first, with  *)
(* no leading zero digit (0 is <<>>).  A double is <<s, m, e>>: the sign   *)
(* s, the mantissa m (such a number, of exactly 53 bits) and the exponent  *)
(* e, with value s * m * 2^e; zero is <<0, <<>>, 0>>.  Every operation     *)
(* computes the exact result and rounds it to the nearest double, a tie    *)
(* to the even mantissa, as the processor does.                            *)
(***************************************************************************)
DigitBase == 2^14

DigitBits == FloorLog2(DigitBase, 0)

RECURSIVE BigOf(_)
BigOf(n) == IF n <= 0 THEN <<>> ELSE <<n % DigitBase>> \o BigOf(n \div DigitBase)

RECURSIVE BigTrim(_)
BigTrim(x) ==
    IF x = <<>> THEN x
    ELSE IF x[Len(x)] # 0 THEN x
    ELSE BigTrim(SubSeq(x, 1, Len(x) - 1))

\* The digits of the number with the places ds (a place may exceed a
\* digit or be negative) and c carried into the lowest place.
RECURSIVE BigCarry(_, _)
BigCarry(ds, c) ==
    IF ds = <<>> THEN BigOf(c)
    ELSE LET v == Head(ds) + c
         IN  <<v % DigitBase>> \o BigCarry(Tail(ds), v \div DigitBase)

BigAdd(x, y) ==
    BigCarry([i \in 1..Max(Len(x), Len(y)) |->
                 (IF i <= Len(x) THEN x[i] ELSE 0)
                     + (IF i <= Len(y) THEN y[i] ELSE 0)], 0)

\* x - y for x >= y.
BigSub(x, y) ==
    BigTrim(BigCarry([i \in 1..Len(x) |->
                         x[i] - (IF i <= Len(y) THEN y[i] ELSE 0)], 0))

\* x * a + b for small a > 0, b >= 0.
BigTimes(x, a, b) == BigCarry([i \in 1..Len(x) |-> x[i] * a], b)

\* -1, 0, 1 as x < y, x = y, x > y.
RECURSIVE BigCmpFrom(_, _, _)
BigCmpFrom(x, y, i) ==
    IF i = 0 THEN 0
    ELSE IF x[i] < y[i] THEN -1
    ELSE IF x[i] > y[i] THEN 1
    ELSE BigCmpFrom(x, y, i - 1)

BigCmp(x, y) ==
    IF Len(x) < Len(y) THEN -1
    ELSE IF Len(x) > Len(y) THEN 1
    ELSE BigCmpFrom(x, y, Len(x))

\* x * 2^k.
BigShl(x, k) ==
    IF x = <<>> THEN x
    ELSE [i \in 1..(k \div DigitBits) |-> 0]
             \o BigTimes(x, 2^(k % DigitBits), 0)

RECURSIVE BigMul(_, _)
BigMul(x, y) ==
    IF x = <<>> \/ y = <<>> THEN <<>>
    ELSE BigAdd(BigTimes(x, Head(y), 0),
                BigShl(BigMul(x, Tail(y)), DigitBits))

\* <<x \div d, x % d>> for small d > 0.
RECURSIVE BigDivFrom(_, _, _, _)
BigDivFrom(x, d, i, r) ==
    IF i = 0 THEN << <<>>, r >>
    ELSE LET v    == r * DigitBase + x[i]
             rest == BigDivFrom(x, d, i - 1, v % d)
         IN  <<Append(rest[1], v \div d), rest[2]>>

BigDiv(x, d) ==
    LET Trimmed(qr) == <<BigTrim(qr[1]), qr[2]>>
    IN  Trimmed(BigDivFrom(x, d, Len(x), 0))

\* <<x \div 2^k, whether x % 2^k # 0>>.
BigShr(x, k) ==
    LET Cut(qr, n) == <<qr[1], qr[2] # 0 \/ \E i \in 1..n : x[i] # 0>>
        Below(n)   == IF n >= Len(x) THEN << <<>>, x # <<>> >>
                      ELSE Cut(BigDiv(SubSeq(x, n + 1, Len(x)),
                                      2^(k % DigitBits)), n)
    IN  Below(k \div DigitBits)

\* The number of bits of x.
BigBits(x) ==
    IF x = <<>> THEN 0
    ELSE DigitBits * (Len(x) - 1) + FloorLog2(x[Len(x)], 0) + 1

\* Square root, two bits at a time from the top: r is the whole part of
\* the root of the bits read so far and rem what they leave over (the
\* bits read are r * r + rem).  BigSqrtPairs reads the pairs j, .., 0 of
\* the digit d after the digits above it, BigSqrtFrom the digits of x from
\* the top down to the i-th.
RECURSIVE BigSqrtPairs(_, _, _, _)
BigSqrtPairs(d, j, r, rem) ==
    LET Pair(left, t) ==
            IF BigCmp(left, t) >= 0
            THEN BigSqrtPairs(d, j - 1, BigTimes(r, 2, 1), BigSub(left, t))
            ELSE BigSqrtPairs(d, j - 1, BigTimes(r, 2, 0), left)
    IN  IF j < 0 THEN <<r, rem>>
        ELSE Pair(BigTimes(rem, 4, (d \div 4^j) % 4), BigTimes(r, 4, 1))

RECURSIVE BigSqrtFrom(_, _)
BigSqrtFrom(x, i) ==
    IF i > Len(x) THEN << <<>>, <<>> >>
    ELSE LET s == BigSqrtFrom(x, i + 1)
         IN  IF s[2] = <<>> /\ x[i] = 0
             THEN <<BigShl(s[1], DigitBits \div 2), <<>> >>
             ELSE BigSqrtPairs(x[i], DigitBits \div 2 - 1, s[1], s[2])

\* <<the whole part r of the square root of x, whether r * r = x>>.
BigSqrt(x) ==
    LET Root(s) == <<s[1], s[2] = <<>> >> IN Root(BigSqrtFrom(x, 1))

FloatZero == <<0, <<>>, 0>>

\* The double nearest to s * (n + f) * 2^e for a number n > 0 and a
\* fraction 0 <= f < 1 that is not zero exactly when sticky holds (then n
\* has more than 53 bits).
\* The top 54 bits of n are cut off first (above, with whether a bit below
\* them is set) and halved (q, with whether the 54th bit is set).
Rounded(s, n, e, sticky) ==
    LET Carried(m, k) ==
            IF BigBits(m) > 53 THEN <<s, BigShr(m, 1)[1], e + k + 1>>
            ELSE <<s, m, e + k>>
        Halved(q, below, k) ==
            Carried(IF q[2] /\ (sticky \/ below \/ q[1][1] % 2 = 1)
                    THEN BigTimes(q[1], 1, 1) ELSE q[1], k)
        Cut(above, k) == Halved(BigShr(above[1], 1), above[2], k)
        Of(bits) ==
            IF bits <= 53 THEN <<s, BigShl(n, 53 - bits), e - (53 - bits)>>
            ELSE Cut(BigShr(n, bits - 54), bits - 53)
    IN  Of(BigBits(n))

\* float(n) * 2^e for a whole number n.
FloatOf(n, e) ==
    IF n = 0 THEN FloatZero
    ELSE Rounded(IF n > 0 THEN 1 ELSE -1, BigOf(IF n > 0 THEN n ELSE -n), e,
                 FALSE)

\* a + b
FloatAdd(a, b) ==
    IF a[1] = 0 THEN b
    ELSE IF b[1] = 0 THEN a
    ELSE LET Signed(x, y, e, c) ==
                 IF a[1] # b[1] /\ c = 0 THEN FloatZero
                 ELSE Rounded(IF a[1] = b[1] \/ c > 0 THEN a[1] ELSE b[1],
                              IF a[1] = b[1] THEN BigAdd(x, y)
                              ELSE IF c > 0 THEN BigSub(x, y)
                              ELSE BigSub(y, x),
                              e, FALSE)
             Aligned(x, y, e) == Signed(x, y, e, BigCmp(x, y))
             At(e) == Aligned(BigShl(a[2], a[3] - e), BigShl(b[2], b[3] - e),
                              e)
         IN  At(IF a[3] <= b[3] THEN a[3] ELSE b[3])

\* a - b
FloatSub(a, b) == FloatAdd(a, <<-b[1], b[2], b[3]>>)

\* a * b
FloatMul(a, b) ==
    IF a[1] = 0 \/ b[1] = 0 THEN FloatZero
    ELSE Rounded(a[1] * b[1], BigMul(a[2], b[2]), a[3] + b[3], FALSE)

\* a / 2.0
FloatHalf(a) == IF a[1] = 0 THEN a ELSE <<a[1], a[2], a[3] - 1>>

\* a / float(d) for a whole number 0 < d < 2^14.
FloatDiv(a, d) ==
    IF a[1] = 0 THEN FloatZero
    ELSE LET Quotient(qr, k) == Rounded(a[1], qr[1], a[3] - k, qr[2] # 0)
             Scaled(k) == Quotient(BigDiv(BigShl(a[2], k), d), k)
         IN  Scaled(FloorLog2(d, 0) + 3)

\* math.hypot(a, b)
Hypot(a, b) ==
    IF a[1] = 0 THEN <<b[1] * b[1], b[2], b[3]>>
    ELSE IF b[1] = 0 THEN <<1, a[2], a[3]>>
    ELSE LET Root(r, e) == Rounded(1, r[1], e - 3, ~r[2])
             Aligned(x, y, e) ==
                 Root(BigSqrt(BigShl(BigAdd(BigMul(x, x), BigMul(y, y)), 6)),
                      e)
             At(e) == Aligned(BigShl(a[2], a[3] - e), BigShl(b[2], b[3] - e),
                              e)
         IN  At(IF a[3] <= b[3] THEN a[3] ELSE b[3])

\* -1, 0, 1 as a < b, a = b, a > b.
FloatCmp(a, b) ==
    IF a[1] # b[1] THEN (IF a[1] < b[1] THEN -1 ELSE 1)
    ELSE IF a[1] = 0 THEN 0
    ELSE IF a[3] # b[3] THEN (IF a[3] < b[3] THEN -a[1] ELSE a[1])
    ELSE a[1] * BigCmp(a[2], b[2])

\* A coordinate <<P, R, D>> of the smoothed box as a double.
AsFloat(x) ==
    IF x[1] = 0 THEN FloatZero
    ELSE LET Less(s, main) ==
                 Rounded(s,
                         BigDiv(IF s * x[2] > 0
                                THEN BigSub(main, BigOf(s * x[2]))
                                ELSE BigAdd(main, BigOf(-s * x[2])),
                                x[3])[1],
                         -56, FALSE)
             Signed(s) == Less(s, BigShl(BigOf(s * x[1]), 56))
         IN  Signed(IF x[1] > 0 THEN 1 ELSE -1)

\* self.radius, the motion bonus 0.3 and the threshold 0.25 as doubles.
FloatRadius == FloatOf(radius, 0)

MotionScore == FloatDiv(FloatOf(MotionBonus10, 0), 10)

FloatThreshold == FloatDiv(FloatOf(Threshold100, 0), 100)

\* _ball_center of a smoothed box: ((x1 + x2) / 2.0, (y1 + y2) / 2.0).
FloatBallCenter(ball) ==
    << FloatHalf(FloatAdd(AsFloat(ball[1]), AsFloat(ball[3]))),
       FloatHalf(FloatAdd(AsFloat(ball[2]), AsFloat(ball[4]))) >>

\* The loop over player_centers.items() for a ball centre of doubles:
\* returns <<best_score, best_team>>.  The centres of the players and
\* their velocities are whole numbers of half pixels, exact as doubles.
\* Player takes the track at i, Toward its vector to the ball (lines
\* 150-151), Measured the distance and the dot product (140, 153), Scored
\* the distance score (146) and Compared the score (160-164); Rest is
\* the loop over the tracks after i.
RECURSIVE FloatScoreLoop(_, _, _, _, _, _, _)
FloatScoreLoop(centers, i, prev, team_map, ball_c, best_score, best_team) ==
    LET Rest(score, team) ==
            FloatScoreLoop(centers, i + 1, prev, team_map, ball_c, score, team)
        Compared(team, dist, score) ==
            IF team \notin Teams \/ FloatCmp(dist, FloatRadius) > 0
            THEN Rest(best_score, best_team)
            ELSE IF FloatCmp(score, best_score) > 0 THEN Rest(score, team)
            ELSE Rest(best_score, best_team)
        Scored(team, dist, dist_score, dot) ==
            Compared(team, dist,
                     IF dot[1] > 0 THEN FloatAdd(dist_score, MotionScore)
                     ELSE dist_score)
        Measured(team, dist, dot) ==
            Scored(team, dist,
                   FloatDiv(FloatSub(FloatRadius, dist), radius), dot)
        Toward(team, v, to_ball_x, to_ball_y) ==
            Measured(team, Hypot(to_ball_x, to_ball_y),
                     FloatAdd(FloatMul(FloatOf(v[1], -1), to_ball_x),
                              FloatMul(FloatOf(v[2], -1), to_ball_y)))
        Player(tid, p) ==
            Toward(TeamOf(team_map, tid), Velocity(prev, tid, p),
                   FloatSub(ball_c[1], FloatOf(p[1], -1)),
                   FloatSub(ball_c[2], FloatOf(p[2], -1)))
    IN  IF i > Len(centers) THEN <<best_score, best_team>>
        ELSE Player(centers[i][1], centers[i][2])

\* The direct winner of a frame whose ball is the smoothed box (possession.py
\* lines 128-169), or None.
FloatDirectWinner(prev, trks, team_map, ball) ==
    IF ball = NoBox THEN None
    ELSE LET Clear(best) ==
                 IF best[2] # None /\ FloatCmp(best[1], FloatThreshold) >= 0
                 THEN best[2] ELSE None
         IN  Clear(FloatScoreLoop(PlayerCenters(trks, 1, <<>>), 1, prev,
                                  team_map, FloatBallCenter(ball),
                                  FloatZero, None))

\* PossessionTracker.update(tracks, frame_team_map, self.smoothed_ball).
PossUpdateSmoothed(st, trks, team_map, ball) ==
    PossUpdateGiven(st, trks,
                    FloatDirectWinner(st.prev_player_centers, trks, team_map,
                                      ball))

\* possession_tracker.update(tracks, frame_team_map, self.smoothed_ball) as
\* a step (pipeline.py:276).
PossStepSmoothed(trks, team_map, ball) ==
    \E st \in { PossUpdateSmoothed(PossState, trks, team_map, ball) } :
        PossStepTo(st, trks, team_map, ball)

(***************************************************************************)
(* The frame loop (Pipeline.process_video).  A detector row is             *)
(* <<x1, y1, x2, y2, score, cls_id>> with whole-pixel coordinates, as the  *)
(* player boxes of the tracker and of the possession tracker, and the      *)
(* score in hundredths.  The coordinates of a ball row are handed to the   *)
(* selector as they are, in the selector's tenths of a pixel.  The         *)
(* possession tracker is given the smoothed ball, a box of four doubles.   *)
(***************************************************************************)
PersonClass == 0
BallClass == 32

\* "score >= 0.35", in hundredths.
MinScore100 == 35

\* _is_on_pitch: h < 0.06 * h_frame and y2 < 0.25 * h_frame, in hundredths.
MinHeightShare100 == 6
MinFeetShare100 == 25

VARIABLES
    frame_rows,             \* results.boxes.data of the last frame
    tracking_log            \* process_video's tracking_log: id -> [team, history]

loopVars == <<frame_rows, tracking_log>>

\* Pipeline._is_on_pitch(frame, box); map(int, box) leaves the whole
\* coordinates of a row as they are.
IsOnPitch(row) ==
    LET h == row[4] - row[2]
    IN  IF 100 * h < MinHeightShare100 * FrameH THEN FALSE
        ELSE IF 100 * row[4] < MinFeetShare100 * FrameH THEN FALSE
        ELSE TRUE

\* bbox = (x1, y1, x2, y2): the coordinates of the row, unchanged.
PersonBox(row) == <<row[1], row[2], row[3], row[4]>>

\* (x1, y1, x2, y2, score): the coordinates of the row, written in tenths
\* of a pixel, and its score.
BallCandidate(row) ==
    <<10 * row[1], 10 * row[2], 10 * row[3], 10 * row[4], row[5]>>

\* "score >= 0.35" and self._is_on_pitch(frame, bbox) for a person row.
KeepsPerson(row) == row[5] >= MinScore100 /\ IsOnPitch(row)

\* The loop over results.boxes.data: <<detections, ball_candidates>>.
RECURSIVE SplitRows(_, _, _, _)
SplitRows(rows, i, dets, cands) ==
    IF i > Len(rows) THEN <<dets, cands>>
    ELSE LET row == rows[i]
         IN  IF row[6] = PersonClass
             THEN IF KeepsPerson(row)
                  THEN SplitRows(rows, i + 1, Append(dets, PersonBox(row)),
                                 cands)
                  ELSE SplitRows(rows, i + 1, dets, cands)
             ELSE IF row[6] = BallClass /\ row[5] >= MinScore100
                  THEN SplitRows(rows, i + 1, dets,
                                 Append(cands, BallCandidate(row)))
                  ELSE SplitRows(rows, i + 1, dets, cands)

\* The loop over tracks: teams[i] is what the classifier answers for the
\* i-th pair; returns <<frame_team_map, tracking_log>>.
RECURSIVE ClassifyLoop(_, _, _, _, _, _)
ClassifyLoop(trks, teams, i, team_map, tlog, fidx) ==
    IF i > Len(trks) THEN <<team_map, tlog>>
    ELSE LET tid   == trks[i][1]
             box   == trks[i][2]
             team  == teams[i]
             entry == <<fidx>> \o box
             old   == IF DictHas(tlog, tid) THEN DictGet(tlog, tid)
                      ELSE [team |-> team, history |-> <<>>]
         IN  IF team \notin Teams
             THEN ClassifyLoop(trks, teams, i + 1, team_map, tlog, fidx)
             ELSE ClassifyLoop(trks, teams, i + 1,
                      [t \in DOMAIN team_map \cup {tid} |->
                          IF t = tid THEN team ELSE team_map[t]],
                      DictSet(tlog, tid,
                              [old EXCEPT !.history = Append(@, entry)]),
                      fidx)

LoopInit ==
    /\ frame_rows = <<>>
    /\ tracking_log = <<>>

vars == <<trackerVars, possVars, ballVars, loopVars>>

(***************************************************************************)
(* Inputs.  The ball box has centre (100, 100); the player boxes have      *)
(* their centroids at distance 10, 28, 45, 60 and 70 from it.  A track at  *)
(* 28 with the motion bonus and a track at 10 without it have scores that  *)
(* are equal as real numbers and differ as doubles.                        *)
(***************************************************************************)
BallBox == <<95, 95, 105, 105>>

Box10 == <<100, 80, 120, 120>>
Box28 == <<118, 80, 138, 120>>
Box45 == <<135, 80, 155, 120>>
Box60 == <<150, 80, 170, 120>>
Box70 == <<160, 80, 180, 120>>

PlayerBoxes == {Box10, Box28, Box45, Box60, Box70}

\* Bound on the length of the track list of one frame.
MaxTracks == 2

TrackIds == {1, 2}

TrackLists == UNION { [1..n -> TrackIds \X PlayerBoxes] : n \in 0..MaxTracks }

\* The track lists of the frame before the scored one: each id at most
\* once, in id order (the order of prev_player_centers is never read).
PriorTrackLists ==
    { t \in TrackLists :
        \A i, j \in 1..Len(t) : i < j => t[i][1] < t[j][1] }

TeamMaps ==
    { (1 :> "A") @@ (2 :> "B"), (1 :> "B") @@ (2 :> "A"),
      (1 :> "A") @@ (2 :> "R"), (2 :> "B") }

BallBoxes == {NoBox, BallBox}

\* The frames of a session: team A in control, team B in control, the
\* ball lost, and the ball visible with nobody in reach.
FrameA ==
    [tracks |-> << <<1, Box10>> >>, teams |-> (1 :> "A"), ball |-> BallBox]

FrameB ==
    [tracks |-> << <<2, Box10>> >>, teams |-> (2 :> "B"), ball |-> BallBox]

FrameLost ==
    [tracks |-> << <<1, Box10>>, <<2, Box45>> >>,
     teams |-> (1 :> "A") @@ (2 :> "B"), ball |-> NoBox]

FrameOut ==
    [tracks |-> << <<1, Box70>> >>, teams |-> (1 :> "A"), ball |-> BallBox]

SessionFrames == {FrameA, FrameB, FrameLost, FrameOut}

\* The ball at the feet of a referee: the classifier's answer for the
\* only track is neither "A" nor "B".
FrameRef ==
    [tracks |-> << <<1, Box10>> >>, teams |-> (1 :> "R"), ball |-> BallBox]

RefSessionFrames == SessionFrames \cup {FrameRef}

\* Bound on the number of updates of a session with a referee.
MaxRefFrames == 6

E2ESessionFrames == {FrameA, FrameB, FrameLost}

\* Constructor arguments (fps, window_seconds, memory_seconds), in tenths.
\* They give (window_frames, memory_frames) = (4, 2), (2, 1) and (3, 3).
PossConfigs == { <<40, 10, 5>>, <<20, 10, 5>>, <<30, 10, 10>> }

\* (window_frames, memory_frames) = (10, 5) and the pipeline's (75, 12).
E2EConfigs ==
    { <<100, 10, 5>>,
      <<DefaultFps10, DefaultWindowSeconds10, DefaultMemorySeconds10>> }

\* Bounds on the number of updates of a run.
MaxPossFrames == 7
E2EFrames == 10

\* Raw ball observations: the spec's example box and a second one next to
\* it, of another size: the means over three and over five boxes are
\* thirds and fifths, which no double holds exactly, the means over one,
\* two and four boxes are binary fractions.
BallP == <<0, 0, 10, 10>>
BallQ == <<1, 2, 12, 14>>

RawBalls == {NoBox, BallP, BallQ}

MaxBallFrames == 8

\* Ball candidates in a 100 x 100 frame: boxes in tenths of a pixel, one or
\* two per test of the loop and per side of its limits, some with
\* fractional coordinates; scores 0.35 and 0.90.
CandGood     == <<100, 300, 200, 400>>   \* 10 x 10
CandFrac     == <<504, 602, 607, 709>>   \* 10.3 x 10.7, whole pixels 10 x 10
CandFracTiny == <<100, 300, 129, 319>>   \* 2.9 x 1.9, whole pixels 2 x 1
CandFracGrow == <<109, 309, 130, 320>>   \* 2.1 x 1.1, whole pixels 3 x 2
CandZeroW    == <<100, 300, 100, 400>>
CandNegH     == <<100, 400, 200, 300>>
CandArea4    == <<100, 300, 120, 320>>   \* area 4
CandTall     == <<100, 300, 200, 500>>   \* area 200, aspect 0.5
CandBig      == <<100, 300, 250, 440>>   \* area 210
CandAspect18 == <<100, 300, 190, 350>>   \* aspect 1.8
CandWide     == <<100, 300, 200, 350>>   \* aspect 2.0
CandHigh     == <<100, 50, 200, 150>>    \* bottom edge 15
CandLow20    == <<100, 100, 200, 200>>   \* bottom edge 20

CandBoxes ==
    { CandGood, CandFrac, CandFracTiny, CandFracGrow, CandZeroW, CandNegH,
      CandArea4, CandTall, CandBig, CandAspect18, CandWide, CandHigh,
      CandLow20 }

CandScores == {35, 90}

Candidates == { b \o <<sc>> : b \in CandBoxes, sc \in CandScores }

MaxCands == 2

CandLists == UNION { [1..n -> Candidates] : n \in 0..MaxCands }

\* Constructor arguments in tenths: frame rates from -25.0 to 60.0 (0.5,
\* 12.5 and 29.9 give products with a fractional part) and durations of
\* 0.1 s, 0.5 s, 3.0 s and 4.1 s (4.1 * 30.0 and 4.1 * 240.0 are whole
\* numbers whose double products fall short); the metadata
\* Pipeline.__init__ may be given.
FpsValues10 == {-250, 0, 5, 125, 250, 299, 300, 600, 2400}

SecondsValues10 == {1, 5, 30, 41}

Metadatas ==
    {NotADict, [is_dict |-> TRUE, items |-> <<>>]}
        \cup { [is_dict |-> TRUE, items |-> << <<"fps", v>> >>] :
                   v \in FpsValues10 }

MaxConfigFrames == 2

\* Detector rows of the frame loop, in a 100 x 100 frame: a player standing
\* on the ball, the same player's box with zero and with negative width,
\* with negative height and with a low score, a ball (also one with a
\* lower score, one with zero width and one at another place, so that the
\* mean of the buffer has thirds) and a row of another class.
RowPlayer     == <<40, 40, 60, 80, 90, 0>>
RowPlayerFar  == <<0, 40, 20, 80, 90, 0>>
RowZeroWidth  == <<50, 40, 50, 80, 90, 0>>
RowNegWidth   == <<60, 40, 40, 80, 90, 0>>
RowNegHeight  == <<40, 80, 60, 40, 90, 0>>
RowLowScore   == <<40, 40, 60, 80, 30, 0>>
RowBall       == <<45, 55, 55, 65, 90, 32>>
RowBallLow    == <<45, 55, 55, 65, 50, 32>>
RowBallZeroW  == <<45, 55, 45, 65, 95, 32>>
RowBallAway   == <<46, 57, 57, 67, 80, 32>>
RowOther      == <<40, 40, 60, 80, 90, 7>>

FrameRowLists ==
    { <<>>,
      <<RowPlayer>>,
      <<RowZeroWidth>>,
      <<RowNegWidth>>,
      <<RowNegHeight, RowPlayer>>,
      <<RowZeroWidth, RowBall>>,
      <<RowBallZeroW, RowBall>>,
      <<RowBall>>,
      <<RowPlayer, RowBallLow>>,
      <<RowPlayer, RowBallAway>>,
      <<RowPlayerFar, RowPlayer, RowBall>>,
      <<RowLowScore, RowOther, RowBallZeroW>> }

\* What the team classifier may answer for a box.
ClassifierAnswers == {"A", "B", "R"}

MaxLoopFrames == 3

DefaultPoss ==
    PossNew(DefaultFps10, DefaultWindowSeconds10, DefaultMemorySeconds10)

(***************************************************************************)
(* Specifications.                                                         *)
(***************************************************************************)
\* The tracker driven frame by frame.
TrackerStep == TrackFrame /\ UNCHANGED <<possVars, ballVars, loopVars>>

PipelineInit ==
    /\ TrackerInit
    /\ DefaultPoss
    /\ BallInit
    /\ LoopInit

SpecTracker == PipelineInit /\ [][TrackerStep]_vars

\* A possession session over the session frames.
PossInit ==
    /\ TrackerInit
    /\ BallInit
    /\ LoopInit
    /\ \E cfg \in PossConfigs : PossNew(cfg[1], cfg[2], cfg[3])

PossFrame ==
    /\ Len(frame_log) < MaxPossFrames
    /\ \E f \in SessionFrames : PossStep(f.tracks, f.teams, f.ball)
    /\ UNCHANGED <<trackerVars, ballVars, loopVars>>

SpecPoss == PossInit /\ [][PossFrame]_vars

\* A possession session in which a referee can be at the ball.
RefInit ==
    /\ TrackerInit
    /\ BallInit
    /\ LoopInit
    /\ \E cfg \in PossConfigs : PossNew(cfg[1], cfg[2], cfg[3])

RefFrame ==
    /\ Len(frame_log) < MaxRefFrames
    /\ \E f \in RefSessionFrames : PossStep(f.tracks, f.teams, f.ball)
    /\ UNCHANGED <<trackerVars, ballVars, loopVars>>

SpecRef == RefInit /\ [][RefFrame]_vars

\* The end-to-end scenario: sessions of up to E2EFrames frames.
E2EInit ==
    /\ TrackerInit
    /\ BallInit
    /\ LoopInit
    /\ \E cfg \in E2EConfigs : PossNew(cfg[1], cfg[2], cfg[3])

E2EFrame ==
    /\ Len(frame_log) < E2EFrames
    /\ \E f \in E2ESessionFrames : PossStep(f.tracks, f.teams, f.ball)
    /\ UNCHANGED <<trackerVars, ballVars, loopVars>>

SpecE2E == E2EInit /\ [][E2EFrame]_vars

\* The scoring of one frame: a tracker that has seen one ball-less frame
\* (which fixes prev_player_centers) is given every frame of the input
\* space once.
ScoreInit ==
    /\ TrackerInit
    /\ BallInit
    /\ LoopInit
    /\ \E trks \in PriorTrackLists :
        LET fresh == [ window_frames |->
                           FramesFor(DefaultWindowSeconds10, DefaultFps10),
                       memory_frames |->
                           FramesFor(DefaultMemorySeconds10, DefaultFps10),
                       recent_winners |-> <<>>, global_counts |-> <<>>,
                       total_ball_frames |-> 0, prev_player_centers |-> <<>>,
                       last_team |-> None, last_team_memory_left |-> 0,
                       frame_log |-> <<>> ]
            st == PossUpdate(fresh, trks, <<>>, NoBox)
        IN  /\ window_frames = st.window_frames
            /\ memory_frames = st.memory_frames
            /\ recent_winners = st.recent_winners
            /\ global_counts = st.global_counts
            /\ total_ball_frames = st.total_ball_frames
            /\ prev_player_centers = st.prev_player_centers
            /\ last_team = st.last_team
            /\ last_team_memory_left = st.last_team_memory_left
            /\ frame_log = st.frame_log
            /\ call = [tracks |-> trks, teams |-> <<>>, ball |-> NoBox]
            /\ player_velocities = st.player_velocities
            /\ init_call = [fps |-> DefaultFps10,
                            window_seconds |-> DefaultWindowSeconds10,
                            memory_seconds |-> DefaultMemorySeconds10]

ScoreFrame ==
    /\ Len(frame_log) = 1
    /\ \E trks \in TrackLists, tm \in TeamMaps, ball \in BallBoxes :
        PossStep(trks, tm, ball)
    /\ UNCHANGED <<trackerVars, ballVars, loopVars>>

SpecScore == ScoreInit /\ [][ScoreFrame]_vars

\* The ball smoother fed one raw observation per frame.
BallSpecInit ==
    /\ TrackerInit
    /\ DefaultPoss
    /\ BallInit
    /\ LoopInit

SmoothFrame ==
    /\ Len(raw_log) < MaxBallFrames
    /\ \E raw \in RawBalls : SmoothStep(raw)
    /\ UNCHANGED <<ball_candidates, trackerVars, possVars, loopVars>>

SpecBall == BallSpecInit /\ [][SmoothFrame]_vars

\* Ball selection applied once to every candidate list.
SelectInit ==
    /\ TrackerInit
    /\ DefaultPoss
    /\ ball_history = <<>>
    /\ smoothed_ball = NoBox
    /\ raw_ball_box = NoBox
    /\ raw_log = <<>>
    /\ ball_candidates \in CandLists
    /\ LoopInit

SelectFrame ==
    /\ raw_log = <<>>
    /\ SelectAndSmooth(ball_candidates)
    /\ UNCHANGED <<trackerVars, possVars, loopVars>>

SpecSelect == SelectInit /\ [][SelectFrame]_vars

\* Construction with every configuration, directly or through
\* Pipeline.__init__, followed by a short session.
ConfigInit ==
    /\ TrackerInit
    /\ BallInit
    /\ LoopInit
    /\ \/ \E f \in FpsValues10, w \in SecondsValues10, m \in SecondsValues10 :
              PossNew(f, w, m)
       \/ \E metadata \in Metadatas : PipelinePossNew(metadata)

ConfigFrame ==
    /\ Len(frame_log) < MaxConfigFrames
    /\ \E f \in E2ESessionFrames : PossStep(f.tracks, f.teams, f.ball)
    /\ UNCHANGED <<trackerVars, ballVars, loopVars>>

SpecConfig == ConfigInit /\ [][ConfigFrame]_vars

\* The frame loop of process_video: one iteration per step.
LoopSpecInit ==
    /\ TrackerInit
    /\ DefaultPoss
    /\ BallInit
    /\ LoopInit

LoopFrame ==
    /\ frame_idx < MaxLoopFrames
    /\ \E rows \in FrameRowLists :
        \E split \in { SplitRows(rows, 1, <<>>, <<>>) } :
        \E st \in { TrackerUpdate(TrackerState, split[1], frame_idx) } :
        \E teams \in [1..Len(st.results) -> ClassifierAnswers] :
        \E cl \in { ClassifyLoop(st.results, teams, 1, <<>>, tracking_log,
                                 frame_idx) } :
        \E sm \in { UpdateBallSmoothing(BallState, SelectBall(split[2])) } :
            /\ frame_rows' = rows
            /\ detections' = split[1]
            /\ next_id' = st.next_id
            /\ tracks' = st.tracks
            /\ history' = st.history
            /\ results' = st.results
            /\ tracking_log' = cl[2]
            /\ SelectAndSmooth(split[2])
            /\ PossStepSmoothed(st.results, cl[1], sm.smoothed_ball)
    /\ frame_idx' = frame_idx + 1

SpecLoop == LoopSpecInit /\ [][LoopFrame]_vars






(***************************************************************************)
(* Claims about SimpleTracker (checked under SpecTracker).                 *)
(***************************************************************************)

\* C1: every SimpleTracker.update returns exactly one (track_id, box) pair
\* per input detection, in input order: the i-th pair carries the i-th
\* input box unchanged and one id of the tracker.
C1_OnePairPerDetection ==
    /\ Len(results) = Len(detections)
    /\ \A i \in 1..Len(detections) :
        /\ Len(results[i]) = 2
        /\ results[i][2] = detections[i]
        /\ results[i][1] \in DictKeys(tracks)

\* Two detections of one call matched to the same track still give two
\* pairs.
C1_Witness ==
    /\ frame_idx = 2
    /\ Len(detections) = 2
    /\ Len(results) = 2
    /\ results[1][1] = results[2][1]

NoTrackInReach(trs, box) ==
    \A k \in 1..Len(trs) :
        Dist4(Centroid2(box), trs[k][2]) > 4 * max_distance * max_distance

\* The pairs res[i..] of one call, read against the stored centroids as they
\* stand when each detection is processed: `before` holds the tracks at the
\* start of the call overwritten by the pairs already returned, nid is
\* next_id at the start of the call and kept the ids stored after it.
RECURSIVE FreshIdsFrom(_, _, _, _, _)
FreshIdsFrom(before, res, nid, kept, i) ==
    IF i > Len(res) THEN TRUE
    ELSE \A ids \in { DictKeys(before) } :
            LET tid == res[i][1]
                box == res[i][2]
            IN  /\ NoTrackInReach(before, box) => tid \notin ids
                /\ tid \notin ids
                      => /\ tid > 0
                         /\ tid >= nid
                         /\ \A k \in ids : tid > k
                /\ tid \in kept
                /\ FreshIdsFrom(DictSet(before, tid, Centroid2(box)),
                                res, nid, kept, i + 1)

\* C2: a detection with no stored centroid within max_distance at the
\* moment it is processed receives a newly minted id; every newly minted
\* id is positive and strictly greater than every id minted before it, and
\* no id is ever dropped or handed out again as new.
C2_FreshIdWhenNoTrackInReach ==
    [][ /\ DictKeys(tracks) \subseteq DictKeys(tracks')
        /\ Len(results') = Len(detections')
        /\ \A i \in 1..Len(detections') : results'[i][2] = detections'[i]
        /\ FreshIdsFrom(tracks, results', next_id, DictKeys(tracks'), 1)
      ]_vars

\* A call made while a track exists mints two ids in a row.
C2_Witness ==
    /\ frame_idx = 2
    /\ Len(results) = 2
    /\ results[1][1] = 2
    /\ results[2][1] = 3
    /\ NoTrackInReach(SubSeq(tracks, 1, 2), detections[2])

(***************************************************************************)
(* Claims about PossessionTracker.update (checked under SpecPoss).         *)
(***************************************************************************)
Last(q) == q[Len(q)]

Min(a, b) == IF a <= b THEN a ELSE b

\* Frame i had the direct winner team, and no frame after it up to the
\* latest one had a direct winner.
DirectThenUnclear(i, team) ==
    /\ i < Len(frame_log)
    /\ frame_log[i] = [winner |-> team, direct |-> TRUE]
    /\ \A k \in (i + 1)..Len(frame_log) : ~frame_log[k].direct

\* C3 as stated: after a direct A win at index 0 and no direct winner
\* since, the frames at indices 1 .. memory_frames - 1 record A and the
\* frame at index memory_frames records no winner.
C3_MemoryEndsAtMemoryFrames ==
    \A i \in 1..Len(frame_log) :
        DirectThenUnclear(i, "A") =>
            LET idx == Len(frame_log) - i
            IN  /\ idx <= memory_frames - 1 => Last(recent_winners) = "A"
                /\ idx = memory_frames => Last(recent_winners) = None

\* C3 amended: after a direct A win at index 0 and no direct winner since,
\* the frames at indices 1 .. memory_frames record A and the frame at
\* index memory_frames + 1 is the first that records no winner.
C3_MemoryLastsMemoryFrames ==
    \A i \in 1..Len(frame_log) :
        DirectThenUnclear(i, "A") =>
            LET idx == Len(frame_log) - i
            IN  /\ idx <= memory_frames => Last(recent_winners) = "A"
                /\ idx = memory_frames + 1 => Last(recent_winners) = None

\* The memory of a direct A win has just run out, after two frames.
C3_Witness ==
    /\ memory_frames = 2
    /\ Len(frame_log) >= 4
    /\ DirectThenUnclear(Len(frame_log) - 3, "A")
    /\ frame_log[Len(frame_log) - 1].winner = "A"
    /\ Last(recent_winners) = None

\* C4: last_team_memory_left is never negative; an update sets it to
\* memory_frames on a frame with a direct winner, decrements it by one on a
\* frame whose winner is taken from memory, and leaves it alone otherwise.
C4_MemoryCountdown ==
    [][ LET e == Last(frame_log')
        IN  /\ last_team_memory_left >= 0
            /\ last_team_memory_left' >= 0
            /\ e.direct => last_team_memory_left' = memory_frames
            /\ (~e.direct /\ e.winner # None)
                  => last_team_memory_left' = last_team_memory_left - 1
            /\ (~e.direct /\ e.winner = None)
                  => last_team_memory_left' = last_team_memory_left
      ]_vars

\* A direct winner arrives while part of the memory is still left: the
\* countdown is back at memory_frames.
C4_Witness ==
    /\ memory_frames >= 2
    /\ Len(frame_log) >= 3
    /\ frame_log[Len(frame_log) - 2].direct
    /\ ~frame_log[Len(frame_log) - 1].direct
    /\ frame_log[Len(frame_log) - 1].winner # None
    /\ Last(frame_log).direct
    /\ last_team_memory_left = memory_frames

\* C5: global_counts[team] and total_ball_frames grow, by exactly one and
\* for the winning team only, on exactly the frames with a direct winner;
\* a frame whose winner comes from memory, or that has no winner, leaves
\* both unchanged.
C5_GlobalStatsOnlyDirect ==
    [][ LET e == Last(frame_log')
        IN  IF e.direct
            THEN /\ total_ball_frames' = total_ball_frames + 1
                 /\ CounterGet(global_counts', e.winner)
                       = CounterGet(global_counts, e.winner) + 1
                 /\ \A t \in (Teams \cup DOMAIN global_counts'
                                \cup DOMAIN global_counts) \ {e.winner} :
                       CounterGet(global_counts', t)
                          = CounterGet(global_counts, t)
            ELSE /\ total_ball_frames' = total_ball_frames
                 /\ global_counts' = global_counts
      ]_vars

\* A frame won from memory after a single direct win.
C5_Witness ==
    /\ Len(frame_log) >= 2
    /\ ~Last(frame_log).direct
    /\ Last(frame_log).winner = "B"
    /\ total_ball_frames = 1
    /\ CounterGet(global_counts, "B") = 1

\* C6: recent_winners holds exactly the winners of the last
\* min(number of updates, window_frames) frames, in frame order.
C6_WindowIsLastFrames ==
    LET n == Len(frame_log)
        m == Min(n, window_frames)
    IN  /\ Len(recent_winners) = m
        /\ \A k \in 1..m : recent_winners[k] = frame_log[n - m + k].winner

\* The window is full, entries have been evicted, and it holds different
\* winners.
C6_Witness ==
    /\ window_frames >= 3
    /\ Len(frame_log) >= window_frames + 2
    /\ Len(recent_winners) = window_frames
    /\ recent_winners[1] = "A"
    /\ recent_winners[2] = None
    /\ Last(recent_winners) = "B"

(***************************************************************************)
(* Claims about get_percentages (checked under SpecPoss).                  *)
(***************************************************************************)
\* The value n/d of a percentage compared with an integer or with a
\* fraction a/b.
PctIs(p, n) == p[1] = n * p[2]

PctIsRatio(p, a, b) == p[1] * b = 100 * a * p[2]

WindowCount(team) ==
    Cardinality({k \in 1..Len(recent_winners) : recent_winners[k] = team})

\* C7: get_percentages returns A >= 0 and B >= 0 with A + B <= 100, and
\* returns A = B = 0 only when recent_winners holds no A/B entry and
\* total_ball_frames = 0.
C7_PercentagesBounded ==
    LET p == GetPercentages(PossState)
    IN  /\ p.A[2] > 0 /\ p.B[2] > 0
        /\ p.A[1] >= 0 /\ p.B[1] >= 0
        /\ p.A[1] * p.B[2] + p.B[1] * p.A[2] <= 100 * p.A[2] * p.B[2]
        /\ (PctIs(p.A, 0) /\ PctIs(p.B, 0))
              => /\ WindowCount("A") = 0
                 /\ WindowCount("B") = 0
                 /\ total_ball_frames = 0
                 /\ CounterGet(global_counts, "A") = 0
                 /\ CounterGet(global_counts, "B") = 0

\* One A and two B entries in the window: 33.3 and 66.7 per cent.
C7_Witness ==
    /\ WindowCount("A") = 1
    /\ WindowCount("B") = 2
    /\ PctIsRatio(GetPercentages(PossState).A, 1, 3)
    /\ PctIsRatio(GetPercentages(PossState).B, 2, 3)

\* C8: with an A/B entry in the window, get_percentages returns the shares
\* of A and B among the non-None entries of recent_winners; with none, it
\* returns global_counts[team] / total_ball_frames as percentages (0 and 0
\* when total_ball_frames = 0).
C8_WindowThenGlobal ==
    LET p       == GetPercentages(PossState)
        nonNone == Cardinality({k \in 1..Len(recent_winners) :
                                   recent_winners[k] # None})
    IN  IF WindowCount("A") + WindowCount("B") > 0
        THEN /\ PctIsRatio(p.A, WindowCount("A"), nonNone)
             /\ PctIsRatio(p.B, WindowCount("B"), nonNone)
        ELSE IF total_ball_frames > 0
        THEN /\ PctIsRatio(p.A, CounterGet(global_counts, "A"),
                           total_ball_frames)
             /\ PctIsRatio(p.B, CounterGet(global_counts, "B"),
                           total_ball_frames)
        ELSE PctIs(p.A, 0) /\ PctIs(p.B, 0)

\* After a direct win and window_frames winner-less frames the window holds
\* no A/B entry and the global percentages are reported.
C8_Witness ==
    /\ window_frames >= 2
    /\ Len(recent_winners) = window_frames
    /\ \A k \in 1..Len(recent_winners) : recent_winners[k] = None
    /\ total_ball_frames > 0
    /\ PctIs(GetPercentages(PossState).A, 100)
    /\ PctIs(GetPercentages(PossState).B, 0)

(***************************************************************************)
(* The end-to-end scenario (checked under SpecE2E).                        *)
(***************************************************************************)
\* The session so far: A the direct winner of frames 0-4, B of frames 5-9.
FiveAThenFiveB ==
    /\ Len(frame_log) = 10
    /\ \A k \in 1..5 : frame_log[k] = [winner |-> "A", direct |-> TRUE]
    /\ \A k \in 6..10 : frame_log[k] = [winner |-> "B", direct |-> TRUE]

\* C9: a fresh tracker with window_frames >= 10, updated 10 times with A
\* the direct winner on frames 0-4 and B on frames 5-9, reports A = 50.0
\* and B = 50.0.
C9_FiftyFifty ==
    (FiveAThenFiveB /\ window_frames >= 10)
        => /\ PctIs(GetPercentages(PossState).A, 50)
           /\ PctIs(GetPercentages(PossState).B, 50)

\* The scenario, with the smallest window it allows.
C9_Witness ==
    /\ FiveAThenFiveB
    /\ window_frames = 10
    /\ Len(recent_winners) = 10

(***************************************************************************)
(* The direct winner of a frame (checked under SpecScore).                 *)
(*                                                                         *)
(* The claim is stated on scores computed as numbers: with an integral     *)
(* distance in half pixels, d2 = 2 * dist, the score                       *)
(* (radius - dist) / radius + 0.3 * bonus is, multiplied by 20 * radius,   *)
(* the integer 20 * radius - 10 * d2 + 6 * radius * bonus, and the         *)
(* threshold 0.25 is 5 * radius.  The scores of the program are doubles:   *)
(* a score with the bonus that is equal, as a real number, to a score      *)
(* without it can lie one unit in the last place below or above it.  Both  *)
(* readings are carried as three times the integer; the double is one less *)
(* or one more where it is rounded below or above.  Every distance of the  *)
(* input space that lies within the radius is integral in half pixels.     *)
(***************************************************************************)
\* The tracks of a call, each named by the first position of its id; a
\* track's box is the last one the list gives for its id.
FirstPositions(trks) ==
    {i \in 1..Len(trks) : \A j \in 1..(i - 1) : trks[j][1] # trks[i][1]}

TrackCentre(trks, i) ==
    LET last == CHOOSE k \in 1..Len(trks) :
                    /\ trks[k][1] = trks[i][1]
                    /\ \A j \in (k + 1)..Len(trks) : trks[j][1] # trks[i][1]
    IN  Centroid2(trks[last][2])

InRadius(trks, i, ball_c) ==
    Dist4(ball_c, TrackCentre(trks, i)) <= 4 * radius * radius

\* 2 * dist for a track within the radius.
HalfPixelDistance(trks, i, ball_c) ==
    LET Root(d) == CHOOSE r \in 0..(2 * radius) : r * r = d
    IN  CHOOSE r \in { Root(d) :
                         d \in { Dist4(ball_c, TrackCentre(trks, i)) } } : TRUE

\* The dot product of the track's velocity with the vector to the ball.
DotToBall(prev, trks, i, ball_c) ==
    LET p  == TrackCentre(trks, i)
        vx == IF DictHas(prev, trks[i][1])
              THEN p[1] - DictGet(prev, trks[i][1])[1] ELSE 0
        vy == IF DictHas(prev, trks[i][1])
              THEN p[2] - DictGet(prev, trks[i][1])[2] ELSE 0
    IN  vx * (ball_c[1] - p[1]) + vy * (ball_c[2] - p[2])

\* 3 * 20 * radius * score; as a real number, or (doubles) as the double
\* the program computes.
ScaledScore(prev, trks, i, ball_c, doubles) ==
    LET d2    == HalfPixelDistance(trks, i, ball_c)
        bonus == DotToBall(prev, trks, i, ball_c) > 0
    IN  3 * (20 * radius - 10 * d2 + (IF bonus THEN 6 * radius ELSE 0))
          + (IF doubles /\ bonus /\ d2 \in BonusRoundsBelow THEN -1
             ELSE IF doubles /\ bonus /\ d2 \in BonusRoundsAbove THEN 1
             ELSE 0)

\* The scores of the tracks of a call, by position; -1 for a position that
\* is not the first of its id, is not labelled A or B or is out of radius.
RECURSIVE ScoresFrom(_, _, _, _, _, _)
ScoresFrom(prev, c, ball_c, doubles, i, acc) ==
    IF i > Len(c.tracks) THEN acc
    ELSE ScoresFrom(prev, c, ball_c, doubles, i + 1,
             Append(acc,
                    IF /\ i \in FirstPositions(c.tracks)
                       /\ TeamOf(c.teams, c.tracks[i][1]) \in Teams
                       /\ InRadius(c.tracks, i, ball_c)
                    THEN ScaledScore(prev, c.tracks, i, ball_c, doubles)
                    ELSE -1))

\* The team of the first track that attains the maximum of the scores,
\* provided that maximum is at least 0.25; None otherwise.
WinnerByScores(c, score) ==
    LET best == { i \in 1..Len(score) :
                    /\ score[i] >= 0
                    /\ \A j \in 1..Len(score) : score[i] >= score[j] }
    IN  IF best = {} THEN None
        ELSE LET first == CHOOSE i \in best : \A j \in best : i <= j
             IN  IF score[first] >= 3 * 5 * radius
                 THEN TeamOf(c.teams, c.tracks[first][1])
                 ELSE None

\* The direct winner the claim prescribes for a call, with real scores or
\* with the doubles of the program.
ClaimedDirectWinner(prev, c, doubles) ==
    IF c.ball = NoBox THEN None
    ELSE CHOOSE w \in { WinnerByScores(c, score) :
                          score \in { ScoresFrom(prev, c, Centroid2(c.ball),
                                                 doubles, 1, <<>>) } } : TRUE

\* The example of the claim: a team-A track at distance 10 with zero
\* velocity, radius 60, and no team-B track within the radius.
ExampleCall(prev, c) ==
    /\ radius = 60
    /\ c.ball # NoBox
    /\ \E i \in FirstPositions(c.tracks) :
        /\ TeamOf(c.teams, c.tracks[i][1]) = "A"
        /\ Dist4(Centroid2(c.ball), TrackCentre(c.tracks, i)) = 4 * 10 * 10
        /\ ~DictHas(prev, c.tracks[i][1])
             \/ DictGet(prev, c.tracks[i][1]) = TrackCentre(c.tracks, i)
    /\ \A i \in FirstPositions(c.tracks) :
        TeamOf(c.teams, c.tracks[i][1]) = "B"
           => ~InRadius(c.tracks, i, Centroid2(c.ball))

LastDirectWinner(log) ==
    IF Last(log).direct THEN Last(log).winner ELSE None

\* C10 as stated, the scores being real numbers: with the ball present,
\* the direct winner of a frame is the team of the first track, in track
\* order, that attains the maximum score among the tracks labelled A or B
\* within the radius of the ball, provided that maximum is >= 0.25;
\* otherwise, and when the ball is absent, the frame has no direct winner.
\* In the example of the claim the direct winner is A.
C10_FirstBestOfRealScores ==
    [][ /\ LastDirectWinner(frame_log')
              = ClaimedDirectWinner(prev_player_centers, call', FALSE)
        /\ ExampleCall(prev_player_centers, call')
              => LastDirectWinner(frame_log') = "A"
      ]_vars

\* C10, amended: the same with the scores being the doubles the program
\* computes; a score with the bonus and a score without it that are equal
\* as real numbers are different doubles, and the larger double wins
\* whatever the track order.  In the example of the claim the direct winner
\* is A.
C10_DirectWinnerIsFirstBest ==
    [][ /\ LastDirectWinner(frame_log')
              = ClaimedDirectWinner(prev_player_centers, call', TRUE)
        /\ ExampleCall(prev_player_centers, call')
              => LastDirectWinner(frame_log') = "A"
      ]_vars

\* A team-A track at 28 px that moves toward the ball is first in track
\* order, a team-B track at 10 px that stands still is second: their scores
\* are equal as real numbers (32/60 + 0.3 = 50/60), the double of the first
\* is the smaller one, and B is the direct winner.
C10_Witness ==
    /\ call = [tracks |-> << <<1, Box28>>, <<2, Box10>> >>,
               teams |-> (1 :> "A") @@ (2 :> "B"), ball |-> BallBox]
    /\ DictHas(player_velocities, 1)
    /\ DictGet(player_velocities, 1)[1] < 0
    /\ DictGet(player_velocities, 1)[2] = 0
    /\ DictGet(player_velocities, 2) = <<0, 0>>
    /\ Last(frame_log) = [winner |-> "B", direct |-> TRUE]

(***************************************************************************)
(* Claims about the ball smoother (checked under SpecBall).                *)
(***************************************************************************)
\* The last n raw observations fed were all absent.
LastFedAbsent(n) ==
    /\ Len(raw_log) >= n
    /\ \A i \in (Len(raw_log) - n + 1)..Len(raw_log) : raw_log[i] = NoBox

\* C11: whatever was fed before, after three consecutive updates with an
\* absent raw observation the smoothed box is absent.
C11_ThreeAbsencesClear ==
    LastFedAbsent(3) => smoothed_ball = NoBox

\* Five boxes fill the buffer, then three absences are fed: two boxes are
\* still buffered and the smoothed box is absent.
C11_Witness ==
    /\ Len(raw_log) = 8
    /\ \A i \in 1..5 : raw_log[i] # NoBox
    /\ LastFedAbsent(3)
    /\ ValidBoxes(ball_history) # <<>>
    /\ smoothed_ball = NoBox

(***************************************************************************)
(* Claims about the ball selector (checked under SpecSelect).              *)
(***************************************************************************)
\* The filter conditions on a box whose coordinates are given in units of
\* 1/unit pixel: width > 0 and height > 0, 4 <= area <= 0.02 W H,
\* 0.5 <= width / height <= 1.8, y2 >= 0.20 H.
PassesFilters(b, unit) ==
    LET w == b[3] - b[1]
        h == b[4] - b[2]
    IN  /\ w > 0 /\ h > 0
        /\ w * h >= 4 * unit * unit
        /\ 100 * w * h <= 2 * FrameW * FrameH * unit * unit
        /\ 2 * w >= h
        /\ 10 * w <= 18 * h
        /\ 100 * b[4] >= 20 * FrameH * unit

\* The candidate's box as given, and cut to whole pixels (coordinates >= 0).
GivenBox(c) == <<c[1], c[2], c[3], c[4]>>

WholePixelBox(c) == [k \in 1..4 |-> c[k] \div 10]

\* i is the first index of highest score among the indices in ok.
FirstBest(cands, ok, i) ==
    /\ i \in ok
    /\ \A j \in ok : cands[j][5] <= cands[i][5]
    /\ \A j \in ok : j < i => cands[j][5] < cands[i][5]

\* C12 as stated: the candidate returned is the first of highest score among
\* those whose box satisfies the filter conditions, and absent is returned
\* exactly when no candidate satisfies them.
C12_SelectsFirstBestCandidate ==
    raw_log # <<>> =>
        LET ok == { i \in 1..Len(ball_candidates) :
                       PassesFilters(GivenBox(ball_candidates[i]), 10) }
        IN  /\ (raw_ball_box = NoBox) <=> (ok = {})
            /\ raw_ball_box # NoBox =>
                   \E i \in ok :
                       /\ FirstBest(ball_candidates, ok, i)
                       /\ \A k \in 1..4 :
                              10 * raw_ball_box[k] = ball_candidates[i][k]

\* C12 amended: the same with every candidate's box cut to whole pixels
\* first, both for the filter conditions and for the box returned.
C12_SelectsFirstBestWholePixelBox ==
    raw_log # <<>> =>
        LET ok == { i \in 1..Len(ball_candidates) :
                       PassesFilters(WholePixelBox(ball_candidates[i]), 1) }
        IN  /\ (raw_ball_box = NoBox) <=> (ok = {})
            /\ raw_ball_box # NoBox =>
                   \E i \in ok :
                       /\ FirstBest(ball_candidates, ok, i)
                       /\ raw_ball_box = WholePixelBox(ball_candidates[i])

\* Two surviving candidates of equal score, the first with fractional
\* coordinates: its whole-pixel box is returned.
C12_Witness ==
    /\ raw_log # <<>>
    /\ Len(ball_candidates) = 2
    /\ GivenBox(ball_candidates[1]) = CandFrac
    /\ GivenBox(ball_candidates[2]) = CandGood
    /\ ball_candidates[1][5] = ball_candidates[2][5]
    /\ raw_ball_box = <<50, 60, 60, 70>>

(***************************************************************************)
(* Further claims about SimpleTracker (checked under SpecTracker).         *)
(***************************************************************************)
\* The number of pairs of the returned list that carry the id tid.
PairsWithId(res, tid) == Cardinality({ i \in 1..Len(res) : res[i][1] = tid })

HistoryOf(h, tid) == IF tid \in DOMAIN h THEN h[tid] ELSE <<>>

\* C13 as stated: no track's history holds two entries with the same
\* frame_index (the calls have distinct frame_index values).
C13_OneEntryPerFrame ==
    \A tid \in DOMAIN history :
        \A i, j \in 1..Len(history[tid]) :
            history[tid][i][1] = history[tid][j][1] => i = j

\* C13 amended: a call appends to a track's history one entry per detection
\* assigned the track's id in that call, each with the call's frame_index
\* and the detection's centroid, and leaves the earlier entries in place.
C13_OneEntryPerMatch ==
    [][ \A tid \in DOMAIN history' :
            LET old == HistoryOf(history, tid)
                new == history'[tid]
                got == { i \in 1..Len(results') : results'[i][1] = tid }
            IN  /\ Len(new) = Len(old) + Cardinality(got)
                /\ SubSeq(new, 1, Len(old)) = old
                /\ \A k \in (Len(old) + 1)..Len(new) :
                       /\ new[k][1] = frame_idx
                       /\ \E i \in got :
                              <<new[k][2], new[k][3]>>
                                  = Centroid2(results'[i][2])
      ]_vars

\* A track minted in the first call is matched by both detections of the
\* second call and holds two entries of frame 1.
C13_Witness ==
    /\ frame_idx = 2
    /\ PairsWithId(results, 1) = 2
    /\ Len(history[1]) = 3
    /\ history[1][2][1] = 1
    /\ history[1][3][1] = 1

(***************************************************************************)
(* Claims about the configuration (checked under SpecConfig).              *)
(***************************************************************************)
\* n is max(1, r) for an integer r nearest to seconds * fps (both given in
\* tenths, so the product is in hundredths; a tie allows either neighbour).
IsRoundedFrames(n, seconds10, fps10) ==
    LET p == seconds10 * fps10
        t == TruncDiv(p, 100)
    IN  \E r \in (t - 1)..(t + 1) :
            /\ 2 * Abs(100 * r - p) <= 100
            /\ n = Max(1, r)

\* C14: window_frames and memory_frames are the products seconds * fps
\* rounded to the nearest integer, and at least 1.
C14_FramesAreRounded ==
    /\ window_frames >= 1
    /\ memory_frames >= 1
    /\ IsRoundedFrames(window_frames, init_call.window_seconds, init_call.fps)
    /\ IsRoundedFrames(memory_frames, init_call.memory_seconds, init_call.fps)

\* C15: a tracker given a non-positive fps has the frame counts of a tracker
\* given 25.0.
C15_NonPositiveFpsFallsBack ==
    init_call.fps <= 0 =>
        /\ window_frames = FramesFor(init_call.window_seconds, DefaultFps10)
        /\ memory_frames = FramesFor(init_call.memory_seconds, DefaultFps10)

(***************************************************************************)
(* Claims about the frame loop (checked under SpecLoop).                   *)
(***************************************************************************)
\* A row whose box has non-positive width or non-positive height.
Degenerate(row) == row[3] - row[1] <= 0 \/ row[4] - row[2] <= 0

\* The person rows the loop is to hand to the tracker when degenerate boxes
\* are skipped one by one: high enough score, on the pitch, valid shape.
RECURSIVE ValidPersons(_)
ValidPersons(rows) ==
    IF rows = <<>> THEN <<>>
    ELSE LET row  == Head(rows)
             rest == ValidPersons(Tail(rows))
         IN  IF /\ row[6] = PersonClass
                /\ row[5] >= MinScore100
                /\ ~Degenerate(row)
                /\ 100 * (row[4] - row[2]) >= 6 * FrameH
                /\ 100 * row[4] >= 25 * FrameH
             THEN <<PersonBox(row)>> \o rest
             ELSE rest

\* C16: a box of non-positive width or height is skipped on its own: no
\* such person box is passed to SimpleTracker.update or held as a track, no
\* such ball candidate is selected, and the other detections of the frame
\* are processed.
C16_DegenerateBoxesSkipped ==
    /\ \A i \in 1..Len(detections) :
           /\ detections[i][3] - detections[i][1] > 0
           /\ detections[i][4] - detections[i][2] > 0
    /\ \A i \in 1..Len(results) :
           /\ results[i][2][3] - results[i][2][1] > 0
           /\ results[i][2][4] - results[i][2][2] > 0
    /\ raw_ball_box # NoBox =>
           /\ raw_ball_box[3] - raw_ball_box[1] > 0
           /\ raw_ball_box[4] - raw_ball_box[2] > 0
    /\ detections = ValidPersons(frame_rows)

(***************************************************************************)
(* Further claims about the ball smoother (checked under SpecBall).        *)
(***************************************************************************)
\* The buffer as the claims describe it: the last (at most five) raw
\* observations fed.
LastFed ==
    SubSeq(raw_log, Max(1, Len(raw_log) - 4), Len(raw_log))

\* The absences at the end of the observations fed.
RECURSIVE AbsencesAtEnd(_)
AbsencesAtEnd(log) ==
    IF log # <<>> /\ log[Len(log)] = NoBox
    THEN 1 + AbsencesAtEnd(SubSeq(log, 1, Len(log) - 1))
    ELSE 0

\* The sum of a sequence of integers.
RECURSIVE SumInts(_)
SumInts(xs) == IF xs = <<>> THEN 0 ELSE Head(xs) + SumInts(Tail(xs))

\* The double x is the number num / den (den > 0) exactly.
DoubleIs(x, num, den) == x[2] = 0 /\ x[1] * den = num * x[3]

\* The double x is num / den (den > 0) rounded to the nearest double, if
\* not that number itself: it is off by at most half the gap 2^(e - 52)
\* between the doubles of the size of num / den, e being the binary
\* exponent of num / den.
DoubleIsNearest(x, num, den) ==
    \/ DoubleIs(x, num, den)
    \/ /\ num # 0
       /\ x[1] * den = num * x[3]
       /\ Abs(x[2]) <= x[3] * 2^(RatioExponent(Abs(num), den, 0) + 3)

\* The double x is within 10^-12 of num / den (den > 0):
\* 2^56 / 10^12 = 72057.59...
DoubleIsNear(x, num, den) ==
    /\ x[1] * den = num * x[3]
    /\ Abs(x[2]) <= 72057 * x[3]

\* The box of whole coordinates b as a box of doubles.
WholeBox(b) == [k \in 1..4 |-> <<b[k], 0, 1>>]

\* The boxes among the observations q.
BoxesOf(q) == SelectSeq(q, LAMBDA b : b # NoBox)

\* sb is the box rebuilt from the means of centre-x, centre-y, width and
\* height over the boxes bs: x1 = mean(cx) - mean(w) / 2 and so on, with
\* cx = (x1 + x2) / 2, each coordinate being related by Is(_, _, _) to its
\* value num / den in real numbers.
IsMeanBox(sb, bs, Is(_, _, _)) ==
    LET n    == Len(bs)
        scx2 == SumInts([i \in 1..n |-> bs[i][1] + bs[i][3]])
        scy2 == SumInts([i \in 1..n |-> bs[i][2] + bs[i][4]])
        sw   == SumInts([i \in 1..n |-> bs[i][3] - bs[i][1]])
        sh   == SumInts([i \in 1..n |-> bs[i][4] - bs[i][2]])
    IN  /\ sb # NoBox
        /\ Is(sb[1], scx2 - sw, 2 * n)
        /\ Is(sb[2], scy2 - sh, 2 * n)
        /\ Is(sb[3], scx2 + sw, 2 * n)
        /\ Is(sb[4], scy2 + sh, 2 * n)

\* An update has counted fewer than three trailing absences while the last
\* five observations hold a box.
SmoothedFromBuffer ==
    /\ raw_log # <<>>
    /\ AbsencesAtEnd(raw_log) < 3
    /\ BoxesOf(LastFed) # <<>>

\* Only (0, 0, 10, 10) has been fed, at least once.
OnlyExampleBoxFed ==
    /\ raw_log # <<>>
    /\ \A i \in 1..Len(raw_log) : raw_log[i] = <<0, 0, 10, 10>>

GateDist4 == 4 * max_distance * max_distance

\* The pairs res[i..] of a call, read against the stored centroids as they
\* stand when each detection is processed (`before`: the tracks at the start
\* of the call overwritten by the pairs already returned): a detection with
\* a stored centroid within max_distance gets the id of the nearest one,
\* the earliest created (least id) among equally near ones.
RECURSIVE NearestFrom(_, _, _)
NearestFrom(before, res, i) ==
    IF i > Len(res) THEN TRUE
    ELSE LET tid  == res[i][1]
             c    == Centroid2(res[i][2])
             near == { k \in 1..Len(before) :
                          Dist4(c, before[k][2]) <= GateDist4 }
         IN  /\ near # {} =>
                    \E k \in near :
                        /\ before[k][1] = tid
                        /\ \A j \in near :
                               \/ Dist4(c, before[j][2])
                                      > Dist4(c, before[k][2])
                               \/ /\ Dist4(c, before[j][2])
                                         = Dist4(c, before[k][2])
                                  /\ before[j][1] >= tid
                /\ NearestFrom(DictSet(before, tid, c), res, i + 1)

\* C18: in a call made while a track exists, each detection in turn gets the
\* id of the nearest stored track within max_distance (boundary included,
\* ties to the earliest created), the stored centroids reflecting the
\* earlier detections of the call; a track matched earlier stays eligible.
C18_NearestTrackWithinGate ==
    [][ tracks # <<>> => NearestFrom(tracks, results', 1) ]_vars

\* Tracks 1 and 2 stand 60 px on either side of the first detection of the
\* second call: it gets id 1, and so does the second detection.
C18_Witness ==
    /\ frame_idx = 2
    /\ Len(results) = 2
    /\ results[1] = <<1, <<31, 48, 41, 69>>>>
    /\ results[2][1] = 1
    /\ Len(tracks) = 2
    /\ tracks[2] = <<2, <<144, 21>>>>
    /\ history[1][1] = <<0, 0, 21>>

\* C19: a call made while no track exists gives every detection its own
\* freshly minted id in input order (n detections: n consecutive ids) and
\* one history entry each, also when two detections lie within
\* max_distance of each other.
C19_FirstCallMintsAll ==
    [][ tracks = <<>> =>
            LET n == Len(detections')
            IN  /\ Len(results') = n
                /\ next_id' = next_id + n
                /\ Len(tracks') = n
                /\ \A i \in 1..n :
                       /\ results'[i] = <<next_id + i - 1, detections'[i]>>
                       /\ tracks'[i]
                              = <<next_id + i - 1, Centroid2(detections'[i])>>
                       /\ HistoryOf(history', next_id + i - 1)
                              = << <<frame_idx>>
                                      \o Centroid2(detections'[i]) >>
      ]_vars

\* The first call carries the same box twice: ids 1 and 2.
C19_Witness ==
    /\ frame_idx = 1
    /\ Len(detections) = 2
    /\ detections[1] = detections[2]
    /\ results[1][1] = 1
    /\ results[2][1] = 2
    /\ Len(history[1]) = 1
    /\ Len(history[2]) = 1

\* The ball is lost: the smoothed box is absent after three or more
\* absences in a row.
BallLost == smoothed_ball = NoBox /\ AbsencesAtEnd(raw_log) >= 3

\* C20: once the ball is lost, the smoothed box stays absent after every
\* further absent observation and is present again right after the first
\* observation that is a box.
C20_LostUntilReacquired ==
    [][ BallLost =>
            LET raw == raw_log'[Len(raw_log')]
            IN  /\ raw = NoBox => smoothed_ball' = NoBox
                /\ raw # NoBox => smoothed_ball' # NoBox
      ]_vars

\* A box, four absences (the box is still buffered at the fourth), then a
\* box again: the smoothed box is that last box.
C20_Witness ==
    /\ raw_log = <<BallP, NoBox, NoBox, NoBox, NoBox, BallQ>>
    /\ smoothed_ball = << <<1, 0, 1>>, <<2, 0, 1>>, <<12, 0, 1>>, <<14, 0, 1>> >>

(***************************************************************************)
(* Further claims about PossessionTracker.update (checked under SpecPoss). *)
(***************************************************************************)
\* The ids of a track list.
IdsOf(trks) == { trks[i][1] : i \in 1..Len(trks) }

\* The centroid a track list gives an id: that of its last track with the id.
CentreIn(trks, tid) ==
    LET last == CHOOSE i \in 1..Len(trks) :
                    /\ trks[i][1] = tid
                    /\ \A j \in (i + 1)..Len(trks) : trks[j][1] # tid
    IN  Centroid2(trks[last][2])

\* C21: after every update the stored centres are exactly the centroids of
\* the tracks of that call, and the velocity of each of its tracks is the
\* displacement since the preceding update when that update carried the id,
\* and (0, 0) otherwise.
C21_CentersOverwritten ==
    [][ LET cur    == call'.tracks
            before == call.tracks
        IN  /\ DictKeys(prev_player_centers') = IdsOf(cur)
            /\ Len(prev_player_centers') = Cardinality(IdsOf(cur))
            /\ DictKeys(player_velocities') = IdsOf(cur)
            /\ \A tid \in IdsOf(cur) :
                   /\ DictGet(prev_player_centers', tid) = CentreIn(cur, tid)
                   /\ DictGet(player_velocities', tid) =
                          IF tid \in IdsOf(before)
                          THEN << CentreIn(cur, tid)[1] - CentreIn(before, tid)[1],
                                  CentreIn(cur, tid)[2] - CentreIn(before, tid)[2] >>
                          ELSE <<0, 0>>
      ]_vars

\* Track 1 is seen, misses a frame, and reappears elsewhere: its velocity
\* is (0, 0) and track 2 is forgotten.
C21_Witness ==
    /\ Len(frame_log) = 4
    /\ call = FrameOut
    /\ player_velocities = << <<1, <<0, 0>> >> >>
    /\ prev_player_centers = << <<1, Centroid2(Box70)>> >>
    /\ frame_log[3].winner = "B" /\ frame_log[3].direct
    /\ frame_log[2].winner = "A" /\ frame_log[2].direct
    /\ frame_log[1].winner = None

(***************************************************************************)
(* The lifetime of tracks (checked under SpecTracker).                     *)
(***************************************************************************)
\* C22: no call removes a track; a track that the call neither matched nor
\* minted keeps its centroid and its history; a call without detections
\* returns an empty list and leaves tracks, history and next_id unchanged.
C22_TracksNeverRemoved ==
    [][ LET seen == { results'[i][1] : i \in 1..Len(results') }
        IN  /\ DictKeys(tracks) \subseteq DictKeys(tracks')
            /\ \A tid \in DictKeys(tracks) \ seen :
                   /\ DictGet(tracks', tid) = DictGet(tracks, tid)
                   /\ HistoryOf(history', tid) = HistoryOf(history, tid)
            /\ detections' = <<>> =>
                   /\ results' = <<>>
                   /\ tracks' = tracks
                   /\ history' = history
                   /\ next_id' = next_id
      ]_vars

\* Two tracks were minted in the first call and the second call had no
\* detection: both tracks are still there with one history entry each.
C22_Witness ==
    /\ frame_idx = 2
    /\ detections = <<>>
    /\ results = <<>>
    /\ DictKeys(tracks) = {1, 2}
    /\ next_id = 3
    /\ Len(history[1]) = 1 /\ Len(history[2]) = 1

(***************************************************************************)
(* The global counts (checked under SpecRef).                              *)
(***************************************************************************)
\* C23: total_ball_frames is the sum of the counts of A and B, no other key
\* is counted, and the global percentages sum to 100 whenever
\* total_ball_frames > 0.
C23_GlobalCountsAddUp ==
    /\ DOMAIN global_counts \subseteq Teams
    /\ total_ball_frames
           = CounterGet(global_counts, "A") + CounterGet(global_counts, "B")
    /\ total_ball_frames > 0 =>
           LET p == GlobalPercentages(PossState)
           IN  /\ p.A[2] > 0 /\ p.B[2] > 0
               /\ p.A[1] * p.B[2] + p.B[1] * p.A[2] = 100 * p.A[2] * p.B[2]

\* A, a frame won by A from memory, B, then the referee at the ball (that
\* frame goes to B from memory): one frame is counted for A and one for B.
C23_Witness ==
    /\ Len(frame_log) = 4
    /\ frame_log[1].direct /\ frame_log[1].winner = "A"
    /\ ~frame_log[2].direct /\ frame_log[2].winner = "A"
    /\ frame_log[3].direct /\ frame_log[3].winner = "B"
    /\ call = FrameRef
    /\ ~frame_log[4].direct /\ frame_log[4].winner = "B"
    /\ total_ball_frames = 2
    /\ CounterGet(global_counts, "A") = 1
    /\ CounterGet(global_counts, "B") = 1

(***************************************************************************)
(* The buffer without a box (checked under SpecBall).                      *)
(***************************************************************************)
\* The update returns early, leaving smoothed_ball untouched: the buffer
\* after the push has no box and fewer than three trailing absences.
ReturnsEarly(hist) == ValidBoxes(hist) = <<>> /\ TrailingMisses(hist) < MissLimit

\* C24: smoothed_ball is absent whenever the buffer holds no box, and the
\* early return of an update is only taken while smoothed_ball is absent.
C24_NoBoxNoSmoothedBall ==
    /\ [](ValidBoxes(ball_history) = <<>> => smoothed_ball = NoBox)
    /\ [][ ReturnsEarly(ball_history') =>
               smoothed_ball = NoBox /\ smoothed_ball' = NoBox ]_vars

\* The first two observations are absences: the second update returns
\* early.
C24_Witness ==
    /\ raw_log = <<NoBox, NoBox>>
    /\ ball_history = <<NoBox, NoBox>>
    /\ ReturnsEarly(ball_history)
    /\ smoothed_ball = NoBox

(***************************************************************************)
(* The controller memory (checked under SpecRef).                          *)
(***************************************************************************)
\* The frames so far that had a direct winner.
DirectFrames == { i \in 1..Len(frame_log) : frame_log[i].direct }

\* Frame i took its winner from memory.
FromMemory(i) == ~frame_log[i].direct /\ frame_log[i].winner # None

\* Frame j is the most recent frame with a direct winner before frame i.
LastDirectBefore(j, i) ==
    /\ j \in DirectFrames
    /\ j < i
    /\ \A k \in (j + 1)..(i - 1) : k \notin DirectFrames

\* C25: the memory counter stays within 0..memory_frames and is positive
\* only with a team in last_team; last_team is None exactly when no frame
\* had a direct winner; a winner taken from memory is the most recent direct
\* winner; every team in recent_winners has been a direct winner.
C25_MemoryFollowsDirectWinner ==
    /\ 0 <= last_team_memory_left
    /\ last_team_memory_left <= memory_frames
    /\ last_team_memory_left > 0 => last_team \in Teams
    /\ last_team = None <=> DirectFrames = {}
    /\ \A i \in 1..Len(frame_log) :
           FromMemory(i) =>
               \E j \in DirectFrames :
                   /\ LastDirectBefore(j, i)
                   /\ frame_log[j].winner = frame_log[i].winner
    /\ \A n \in 1..Len(recent_winners) :
           recent_winners[n] # None =>
               /\ recent_winners[n] \in Teams
               /\ \E j \in DirectFrames :
                      frame_log[j].winner = recent_winners[n]

\* A, then B, then the referee at the ball: the third frame goes to B from
\* memory.
C25_Witness ==
    /\ Len(frame_log) = 3
    /\ frame_log[1].direct /\ frame_log[1].winner = "A"
    /\ frame_log[2].direct /\ frame_log[2].winner = "B"
    /\ FromMemory(3) /\ frame_log[3].winner = "B"
    /\ call = FrameRef
    /\ last_team = "B"
    /\ last_team_memory_left = memory_frames - 1
    /\ recent_winners[Len(recent_winners)] = "B"

====
